---- MODULE Spec2Model ----
(***************************************************************************)
(* A model of the JIT stack-frame walker, the GC root marking walk, the    *)
(* exception unwinder and the snapshot/recover engine of                   *)
(* js/src/jit/JitFrames.cpp.                                               *)
(*                                                                         *)
(* Addresses are integers counted in machine words.  The native stack      *)
(* grows down, so the caller of a frame lives at a higher address.         *)
(***************************************************************************)
EXTENDS Integers, Sequences, FiniteSets, TLC

\* ------------------------------------------------------------------ bounds

\* Most frames (the topmost exit or bailout frame included) on a thread.
MaxFrames == 4
\* Most JIT activations on a thread.
MaxActivations == 2
\* Largest bytecode offset a frame's position sources name.
MaxPc == 2

\* nullptr
NULL == 0

\* ------------------------------------------------------- frame layout sizes

\* sizeof of the frame layouts, in words.  CommonFrameLayout holds the return
\* address and the descriptor; JitFrameLayout adds the callee token and the
\* number of actual arguments.
EntryFrameLayout_Size == 2
JitFrameLayout_Size == 4
BaselineStubFrameLayout_Size == 2
RectifierFrameLayout_Size == 4
IonUnwoundRectifierFrameLayout_Size == 4
ExitFrameLayout_Size == 2

\* MOZ_CRASH("unknown frame type")
CRASH_SIZE == -1

UnwoundTypes ==
    {"JitFrame_Unwound_IonJS", "JitFrame_Unwound_BaselineJS",
     "JitFrame_Unwound_BaselineStub", "JitFrame_Unwound_Rectifier"}

FrameTypes ==
    {"JitFrame_Entry", "JitFrame_BaselineJS", "JitFrame_IonJS", "JitFrame_Bailout",
     "JitFrame_BaselineStub", "JitFrame_Rectifier", "JitFrame_Exit"} \cup UnwoundTypes

\* A SizeOfFramePrefix without the case for an unwound rectifier frame.
SizeOfFramePrefix_NoUnwoundRectifier(type) ==
    CASE type = "JitFrame_Entry" -> EntryFrameLayout_Size
      [] type \in {"JitFrame_BaselineJS", "JitFrame_IonJS", "JitFrame_Bailout",
                   "JitFrame_Unwound_BaselineJS", "JitFrame_Unwound_IonJS"}
            -> JitFrameLayout_Size
      [] type = "JitFrame_BaselineStub" -> BaselineStubFrameLayout_Size
      [] type = "JitFrame_Rectifier" -> RectifierFrameLayout_Size
      [] type = "JitFrame_Exit" -> ExitFrameLayout_Size
      [] OTHER -> CRASH_SIZE

SizeOfFramePrefix(type) ==
    CASE type = "JitFrame_Entry" -> EntryFrameLayout_Size
      [] type \in {"JitFrame_BaselineJS", "JitFrame_IonJS", "JitFrame_Bailout",
                   "JitFrame_Unwound_BaselineJS", "JitFrame_Unwound_IonJS"}
            -> JitFrameLayout_Size
      [] type = "JitFrame_BaselineStub" -> BaselineStubFrameLayout_Size
      [] type = "JitFrame_Rectifier" -> RectifierFrameLayout_Size
      [] type = "JitFrame_Unwound_Rectifier" -> IonUnwoundRectifierFrameLayout_Size
      [] type = "JitFrame_Exit" -> ExitFrameLayout_Size
      [] OTHER -> CRASH_SIZE

\* The size of the header that physically lies at a frame of the given kind.
LayoutSize(kind) ==
    CASE kind = "JitFrame_Exit" -> ExitFrameLayout_Size
      [] kind = "JitFrame_BaselineStub" -> BaselineStubFrameLayout_Size
      [] kind = "JitFrame_Rectifier" -> RectifierFrameLayout_Size
      [] OTHER -> JitFrameLayout_Size

\* ------------------------------------------------------------ native stacks

\* The kinds of frame that can be found on a stack below the entry frame.
\* "JitFrame_Bailout" is an Ion frame that an in-flight bailout is tearing
\* down: it is the top of its activation and has a JitFrameLayout.
InnerKinds == {"JitFrame_IonJS", "JitFrame_BaselineJS", "JitFrame_BaselineStub",
               "JitFrame_Rectifier"}
TopKinds == {"JitFrame_Exit", "JitFrame_Bailout"}

\* Which frame kinds can have called a frame of the given kind.
CallerKinds(kind) ==
    CASE kind = "JitFrame_Exit" ->
            {"JitFrame_IonJS", "JitFrame_BaselineJS", "JitFrame_BaselineStub"}
      [] kind \in {"JitFrame_IonJS", "JitFrame_BaselineJS", "JitFrame_Bailout"} ->
            {"JitFrame_IonJS", "JitFrame_BaselineStub", "JitFrame_Rectifier",
             "JitFrame_Entry"}
      [] kind = "JitFrame_BaselineStub" -> {"JitFrame_BaselineJS"}
      [] kind = "JitFrame_Rectifier" -> {"JitFrame_IonJS", "JitFrame_BaselineStub"}
      [] OTHER -> {}

\* The chains of frame kinds of n frames, newest first, the oldest one called
\* from the entry frame.
KindChains(n) ==
    {s \in [1..n -> TopKinds \cup InnerKinds] :
        /\ s[1] \in TopKinds
        /\ \A i \in 2..n : s[i] \in InnerKinds /\ s[i] \in CallerKinds(s[i-1])
        /\ "JitFrame_Entry" \in CallerKinds(s[n])}

\* The address of frame i of a chain whose top frame lies at base: each frame
\* lies above its callee by the callee's header and the local size stored in
\* the callee's descriptor.
RECURSIVE AddrOf(_, _, _, _)
AddrOf(kinds, sizes, base, i) ==
    IF i = 1 THEN base
    ELSE AddrOf(kinds, sizes, base, i - 1) + LayoutSize(kinds[i-1]) + sizes[i-1]

\* ------------------------------------------------------- scripts and code

\* Inlined frames of one Ion frame at most.
MaxInline == 2

\* JSTryNote tables of the scripts on the stack.  Bytecode offsets are
\* relative to script->main().
TryNote(kind, start, length, stackDepth) ==
    [kind |-> kind, start |-> start, length |-> length, stackDepth |-> stackDepth]

MakeScript(trynotes) == [trynotes |-> trynotes, nfixed |-> 1, method |-> 500]

WalkScripts ==
    {MakeScript(<< >>),
     MakeScript(<<TryNote("JSTRY_CATCH", 0, 2, 0)>>),
     MakeScript(<<TryNote("JSTRY_ITER", 1, 1, 1), TryNote("JSTRY_FINALLY", 0, 2, 0)>>)}

IonWalkScripts ==
    {MakeScript(<< >>),
     MakeScript(<<TryNote("JSTRY_LOOP", 0, 2, 0), TryNote("JSTRY_CATCH", 0, 2, 0)>>)}

\* The native code of IonScript k is the address range
\* [IonCodeBase(k), IonCodeBase(k) + IonCodeLength).
IonCodeLength == 8
IonCodeBase(k) == 1000 + k * IonCodeLength

\* IonScript::containsReturnAddress
containsReturnAddress(ionScript, addr) ==
    /\ ionScript # NULL
    /\ IonCodeBase(ionScript) <= addr
    /\ addr < IonCodeBase(ionScript) + IonCodeLength

\* The IonScript pointer embedded in the code before a return address: the
\* IonScript that owns the code the address lies in.
IonScriptAtReturnAddress(addr) == (addr - 1000) \div IonCodeLength

\* The IonScript run by the Ion frame at position i of the activation whose
\* top frame lies at base, and the IonScript a recompilation of its script
\* produces.
IonScriptOf(base, i) == base + i
RecompiledIonScript(ionScript) == ionScript + 50

\* The prevFrameLocalSize stored in the descriptor of frame i: the sizes
\* differ from frame to frame, shift picks one assignment.
LocalSize(i, shift) == (i + shift) % 2

\* The frames of one activation as normal calls leave them: every descriptor
\* names the caller's plain type and the size of the caller's locals, and the
\* return address stored in a frame points into the code of its caller.
MakeFrames(kinds, shift, base) ==
    LET sizes == [i \in 1..Len(kinds) |-> LocalSize(i, shift)]
    IN  [i \in 1..Len(kinds) |->
        [kind     |-> IF kinds[i] = "JitFrame_Bailout" THEN "JitFrame_IonJS" ELSE kinds[i],
         addr     |-> AddrOf(kinds, sizes, base, i),
         prevType |-> IF i = Len(kinds) THEN "JitFrame_Entry" ELSE kinds[i+1],
         prevSize |-> sizes[i],
         retAddr  |-> IF i < Len(kinds) /\ kinds[i+1] = "JitFrame_IonJS"
                      THEN IonCodeBase(IonScriptOf(base, i + 1)) + 1
                      ELSE 500 + i]]

\* What the unwinder reads from a scripted frame besides its header.
\*   BaselineJS: the script, the bytecode offset baselineScriptAndPc resolves,
\*     the number of value slots and the debuggee flag of the BaselineFrame.
\*   IonJS: inl, the logical frames of the snapshot, outermost first, each a
\*     script and a bytecode offset; scriptIon, the IonScript the callee's
\*     script holds now (NULL: none).  The frame's own IonScript is the one
\*     whose code holds the return address into the frame.
NoBody ==
    [script |-> MakeScript(<< >>), pc |-> 0, numValueSlots |-> 1,
     isDebuggee |-> FALSE, inl |-> << >>, scriptIon |-> NULL]

BaselineBodies ==
    {[NoBody EXCEPT !.script = s, !.pc = 1, !.numValueSlots = s.nfixed + 1,
                    !.isDebuggee = d] : s \in WalkScripts, d \in BOOLEAN}

\* The script of an Ion frame holds the frame's IonScript still, another one
\* (a recompilation), or none.
ScriptIonChoices(ionScript) == {ionScript, RecompiledIonScript(ionScript), NULL}

\* What an InlineFrameIterator can stand on.
InlineBodies == {[script |-> s, pc |-> 1] : s \in IonWalkScripts}

\* -------------------------------------------------------- JitFrameIterator

\* current(): the CommonFrameLayout the iterator points to.  An address that
\* holds no frame reads as arbitrary memory, modelled as a frame whose
\* descriptor names no known type.
HasFrameAt(frames, addr) == \E i \in 1..Len(frames) : frames[i].addr = addr

FrameIndex(frames, addr) == CHOOSE i \in 1..Len(frames) : frames[i].addr = addr

FrameAt(frames, addr) ==
    IF HasFrameAt(frames, addr) THEN frames[FrameIndex(frames, addr)]
    ELSE [kind |-> "garbage", addr |-> addr, prevType |-> "garbage",
          prevSize |-> 0, retAddr |-> NULL]

\* JitFrameIterator(const ActivationIterator &)
JitFrameIterator(act, mode) ==
    IF act.bailoutData.active
    THEN [current |-> act.bailoutData.fp, type |-> "JitFrame_Bailout",
          returnAddressToFp |-> NULL, frameSize |-> act.bailoutData.topFrameSize,
          mode |-> mode, cachedSafepointIndex |-> NULL]
    ELSE [current |-> act.jitTop, type |-> "JitFrame_Exit",
          returnAddressToFp |-> NULL, frameSize |-> 0,
          mode |-> mode, cachedSafepointIndex |-> NULL]

\* A fake exit frame: the frame the iterator stands on has a descriptor that
\* EnsureExitFrame has rewritten to an unwound tag.
isFakeExitFrame(frames, it) ==
    FrameAt(frames, it.current).prevType \in UnwoundTypes

done(it) == it.type = "JitFrame_Entry"

isIonJS(it) == it.type = "JitFrame_IonJS"
isBaselineJS(it) == it.type = "JitFrame_BaselineJS"
isBailoutJS(it) == it.type = "JitFrame_Bailout"
isScripted(it) == isBaselineJS(it) \/ isIonJS(it) \/ isBailoutJS(it)

\* A prevFp that forgets the size of the header.
prevFp_NoPrefix(frames, it) ==
    it.current + FrameAt(frames, it.current).prevSize

\* A prevFp without the quick fix for fake exit frames.
prevFp_NoFakeCheck(frames, it) ==
    IF SizeOfFramePrefix(it.type) = CRASH_SIZE THEN CRASH_SIZE
    ELSE it.current + SizeOfFramePrefix(it.type) + FrameAt(frames, it.current).prevSize

\* JitFrameIterator::prevFp(); CRASH_SIZE when SizeOfFramePrefix aborts.
prevFp(frames, it) ==
    LET currentSize == IF isFakeExitFrame(frames, it)
                       THEN SizeOfFramePrefix("JitFrame_IonJS")
                       ELSE SizeOfFramePrefix(it.type)
    IN  IF SizeOfFramePrefix(it.type) = CRASH_SIZE THEN CRASH_SIZE
        ELSE it.current + currentSize + FrameAt(frames, it.current).prevSize

\* An operator++ that takes over every stored tag as it is.
TranslateUnwound_Kept(t) == t

\* The translation of a stored predecessor tag in operator++.
TranslateUnwound(t) ==
    CASE t = "JitFrame_Unwound_IonJS" -> "JitFrame_IonJS"
      [] t = "JitFrame_Unwound_BaselineJS" -> "JitFrame_BaselineJS"
      [] t = "JitFrame_Unwound_BaselineStub" -> "JitFrame_BaselineStub"
      [] OTHER -> t

\* JitFrameIterator::safepoint(): the SafepointIndex of the frame's IonScript
\* for the return address into the frame, looked up when none is cached.  An
\* index is named by the return address getSafepointIndex was asked for.
safepoint(it) ==
    IF it.cachedSafepointIndex # NULL THEN it
    ELSE [it EXCEPT !.cachedSafepointIndex = it.returnAddressToFp]

\* An operator++ that keeps the cached safepoint index.
Increment_CacheKept(frames, it) ==
    LET cur == FrameAt(frames, it.current)
        step == [it EXCEPT !.frameSize = cur.prevSize]
    IN  IF cur.prevType = "JitFrame_Entry"
        THEN [step EXCEPT !.type = "JitFrame_Entry"]
        ELSE IF prevFp(frames, it) = CRASH_SIZE \/ cur.prevType \notin FrameTypes
             THEN [step EXCEPT !.type = "crashed"]
             ELSE [step EXCEPT !.type = TranslateUnwound(cur.prevType),
                               !.returnAddressToFp = cur.retAddr,
                               !.current = prevFp(frames, it)]

\* JitFrameIterator::operator++().  An abort in prevFp leaves the iterator in
\* the pseudo type "crashed".
Increment(frames, it) ==
    LET cur == FrameAt(frames, it.current)
        step == [it EXCEPT !.frameSize = cur.prevSize,
                           !.cachedSafepointIndex = NULL]
    IN  IF cur.prevType = "JitFrame_Entry"
        THEN [step EXCEPT !.type = "JitFrame_Entry"]
        ELSE IF prevFp(frames, it) = CRASH_SIZE \/ cur.prevType \notin FrameTypes
             THEN [step EXCEPT !.type = "crashed"]
             ELSE [step EXCEPT !.type = TranslateUnwound(cur.prevType),
                               !.returnAddressToFp = cur.retAddr,
                               !.current = prevFp(frames, it)]

\* ---------------------------------------------------------- EnsureExitFrame

\* An EnsureExitFrame that returns early for a baseline stub caller.
EnsureExitFrameTag_StubKept(prevType) ==
    IF prevType \in UnwoundTypes THEN prevType
    ELSE IF prevType \in {"JitFrame_Entry", "JitFrame_BaselineStub"} THEN prevType
    ELSE IF prevType = "JitFrame_Rectifier" THEN "JitFrame_Unwound_Rectifier"
    ELSE IF prevType = "JitFrame_BaselineJS" THEN "JitFrame_Unwound_BaselineJS"
    ELSE "JitFrame_Unwound_IonJS"

\* The descriptor tag EnsureExitFrame leaves in a frame whose descriptor
\* named prevType.
EnsureExitFrameTag(prevType) ==
    IF prevType \in UnwoundTypes THEN prevType
    ELSE IF prevType = "JitFrame_Entry" THEN prevType
    ELSE IF prevType = "JitFrame_Rectifier" THEN "JitFrame_Unwound_Rectifier"
    ELSE IF prevType = "JitFrame_BaselineStub" THEN "JitFrame_Unwound_BaselineStub"
    ELSE IF prevType = "JitFrame_BaselineJS" THEN "JitFrame_Unwound_BaselineJS"
    ELSE "JitFrame_Unwound_IonJS"

\* An EnsureExitFrame that also clears the size held by the descriptor.
EnsureExitFrame_SizeCleared(frames, addr) ==
    [i \in 1..Len(frames) |->
        IF frames[i].addr = addr /\ frames[i].prevType # EnsureExitFrameTag(frames[i].prevType)
        THEN [frames[i] EXCEPT !.prevType = EnsureExitFrameTag(frames[i].prevType),
                               !.prevSize = 0]
        ELSE frames[i]]

\* EnsureExitFrame(frame) on the frame at addr: changePrevType rewrites the
\* type tag of the descriptor and nothing else.
EnsureExitFrame(frames, addr) ==
    [i \in 1..Len(frames) |->
        IF frames[i].addr = addr
        THEN [frames[i] EXCEPT !.prevType = EnsureExitFrameTag(frames[i].prevType)]
        ELSE frames[i]]

\* ------------------------------------------------------- MarkJitActivations

\* A switch that has lost its JitFrame_BaselineStub case.
MarkRoutine_NoStub(type) ==
    CASE type = "JitFrame_Exit" -> "MarkJitExitFrame"
      [] type = "JitFrame_BaselineJS" -> "BaselineFrame::trace"
      [] type = "JitFrame_IonJS" -> "MarkIonJSFrame"
      [] type = "JitFrame_Bailout" -> "MarkBailoutFrame"
      [] type = "JitFrame_Rectifier" -> "MarkRectifierFrame"
      [] OTHER -> "nothing"

\* A switch without the case for JitFrame_Unwound_Rectifier.
MarkRoutine_NoUnwoundRectifier(type) ==
    CASE type = "JitFrame_Exit" -> "MarkJitExitFrame"
      [] type = "JitFrame_BaselineJS" -> "BaselineFrame::trace"
      [] type = "JitFrame_BaselineStub" -> "MarkBaselineStubFrame"
      [] type = "JitFrame_IonJS" -> "MarkIonJSFrame"
      [] type = "JitFrame_Bailout" -> "MarkBailoutFrame"
      [] type \in {"JitFrame_Unwound_IonJS", "JitFrame_Unwound_BaselineJS"} ->
            "MOZ_CRASH(invalid)"
      [] type = "JitFrame_Rectifier" -> "MarkRectifierFrame"
      [] OTHER -> "MOZ_CRASH(unexpected frame type)"

\* The routine the switch of MarkJitActivation runs for a frame type.
MarkRoutine(type) ==
    CASE type = "JitFrame_Exit" -> "MarkJitExitFrame"
      [] type = "JitFrame_BaselineJS" -> "BaselineFrame::trace"
      [] type = "JitFrame_BaselineStub" -> "MarkBaselineStubFrame"
      [] type = "JitFrame_IonJS" -> "MarkIonJSFrame"
      [] type = "JitFrame_Bailout" -> "MarkBailoutFrame"
      [] type \in {"JitFrame_Unwound_IonJS", "JitFrame_Unwound_BaselineJS"} ->
            "MOZ_CRASH(invalid)"
      [] type = "JitFrame_Rectifier" -> "MarkRectifierFrame"
      [] type = "JitFrame_Unwound_Rectifier" -> "nothing"
      [] OTHER -> "MOZ_CRASH(unexpected frame type)"

IsCrash(routine) ==
    routine \in {"MOZ_CRASH(invalid)", "MOZ_CRASH(unexpected frame type)"}

\* The loop of MarkJitActivation: one entry per iteration, with the frame the
\* iterator stood on, its type and the routine run.  The walk ends at the
\* entry frame or at an abort.
RECURSIVE MarkFrames(_, _, _)
MarkFrames(frames, it, fuel) ==
    IF done(it) \/ fuel = 0 THEN << >>
    ELSE LET routine == MarkRoutine(it.type)
             entry == [fp |-> it.current, type |-> it.type, routine |-> routine,
                       fake |-> it.type = "JitFrame_Exit" /\ isFakeExitFrame(frames, it)]
         IN  IF IsCrash(routine) THEN <<entry>>
             ELSE <<entry>> \o MarkFrames(frames, Increment(frames, it), fuel - 1)

MarkJitActivation(act, mode) ==
    MarkFrames(act.frames, JitFrameIterator(act, mode), Len(act.frames) + 1)

\* MarkJitActivations: every activation of the thread, newest first.
RECURSIVE MarkJitActivations(_, _, _)
MarkJitActivations(activations, mode, k) ==
    IF k > Len(activations) THEN << >>
    ELSE <<MarkJitActivation(activations[k], mode)>>
            \o MarkJitActivations(activations, mode, k + 1)

\* --------------------------------------------------- HandleExceptionBaseline

\* A jsbytecode* is modelled by its offset from script->main(); NoPc is the
\* null pointer.
NoPc == -1

\* Words between a BaselineFrame and the frame pointer, words of a
\* BaselineFrame, and words of a Value.
BaselineFrame_FramePointerOffset == 2
BaselineFrame_Size == 6
SizeofValue == 2

\* The native code of a baseline script starts at method; the op at bytecode
\* offset pcOffset is compiled at a native offset that grows with pcOffset.
nativeCodeForPC(script, pcOffset) == script.method + 3 * pcOffset + 1

\* UnwindScopeToTryPc
UnwindScopeToTryPc(script, tn) == tn.start

\* cx->getPendingException: the pending value is wrapped into the current
\* compartment, which can fail (ok = FALSE) for a value that needs wrapping.
\* The JS_GENERATOR_CLOSING magic value is no GC thing and needs none.
getPendingException(exception, ok) == exception = "closing" \/ ok

\* What the unwinder hands back (ResumeFromException) before any frame is
\* examined.
InitialRfe ==
    [kind |-> "RESUME_ENTRY_FRAME", target |-> NULL, exception |-> "unset",
     framePointer |-> NULL, stackPointer |-> NULL]

\* The mutable state one call of HandleExceptionBaseline or HandleExceptionIon
\* works on:
\*   exception               the context's pending exception: "none", "normal"
\*                           (an ordinary value) or "closing" (the
\*                           JS_GENERATOR_CLOSING magic value)
\*   propagatingForcedReturn cx->isPropagatingForcedReturn()
\*   rfe                     the ResumeFromException
\*   warmUpResets            calls of script->resetWarmUpCounter()
\*   unwoundScopeToPc, calledDebugEpilogue   the out-parameters
\*   returnValue, overridePc fields of the BaselineFrame
\*   overrecursed            the out-parameter of the Ion handler
\*   crashed                 a MOZ_CRASH was reached
\*   events                  the calls made into collaborators, in order
HandlerState(cx, rfe) ==
    [exception |-> cx.exception,
     propagatingForcedReturn |-> cx.propagatingForcedReturn,
     rfe |-> rfe, warmUpResets |-> 0, unwoundScopeToPc |-> NoPc,
     calledDebugEpilogue |-> FALSE, returnValue |-> "unset",
     overridePc |-> NoPc, overrecursed |-> FALSE, crashed |-> FALSE,
     events |-> << >>]

\* ForcedReturn.  env.epilogueOK is what jit::DebugEpilogue returns; when it
\* fails it has thrown, and an exception is pending again.
ForcedReturn(st, frame, pc, env) ==
    LET called == [st EXCEPT !.events = Append(@, <<"DebugEpilogue", pc>>)]
    IN  IF env.epilogueOK
        THEN [called EXCEPT
                !.rfe.kind = "RESUME_FORCED_RETURN",
                !.rfe.framePointer = frame.fp - BaselineFrame_FramePointerOffset,
                !.rfe.stackPointer = frame.fp - BaselineFrame_FramePointerOffset
                                        - BaselineFrame_Size]
        ELSE [called EXCEPT !.calledDebugEpilogue = TRUE, !.exception = "normal"]

\* A closing return that leaves the return value alone.
HandleClosingGeneratorReturn_NoValue(st, frame, pc, env) ==
    IF st.exception # "closing" THEN st
    ELSE ForcedReturn([st EXCEPT !.exception = "none"], frame, pc, env)

\* HandleClosingGeneratorReturn
HandleClosingGeneratorReturn(st, frame, pc, env) ==
    IF st.exception = "none" THEN st
    ELSE IF ~getPendingException(st.exception, env.getOKClosing) THEN st
    ELSE IF st.exception # "closing" THEN st
    ELSE LET cleared == [st EXCEPT !.exception = "none",
                                   !.returnValue = "undefined"]
             withPc == IF st.unwoundScopeToPc # NoPc /\ frame.isDebuggee
                       THEN [cleared EXCEPT !.overridePc = st.unwoundScopeToPc]
                       ELSE cleared
             pc2 == IF st.unwoundScopeToPc # NoPc THEN st.unwoundScopeToPc ELSE pc
         IN  ForcedReturn(withPc, frame, pc2, env)

\* A scan that does not compare stack depths.
TryNoteApplies_NoDepth(tn, pcOffset, stackDepth) ==
    /\ ~(pcOffset < tn.start)
    /\ ~(pcOffset >= tn.start + tn.length)

\* The three |continue| tests at the head of the try-note loop of
\* HandleExceptionBaseline: the note is examined when none of them fires.
TryNoteApplies(tn, pcOffset, stackDepth) ==
    /\ ~(pcOffset < tn.start)
    /\ ~(pcOffset >= tn.start + tn.length)
    /\ ~(tn.stackDepth > stackDepth)

\* A loop whose FINALLY case leaves the exception pending on the context.
RECURSIVE BaselineTryNotes_ExceptionKept(_, _, _, _, _)
BaselineTryNotes_ExceptionKept(st, frame, pc, env, i) ==
    IF i > Len(frame.script.trynotes) THEN [st |-> st, returned |-> FALSE]
    ELSE
    LET tn == frame.script.trynotes[i]
        stackDepth == frame.numValueSlots - frame.script.nfixed
    IN  IF ~TryNoteApplies(tn, pc, stackDepth)
        THEN BaselineTryNotes_ExceptionKept(st, frame, pc, env, i + 1)
        ELSE
        LET unwound == IF st.exception # "none"
                       THEN [st EXCEPT
                               !.unwoundScopeToPc = UnwindScopeToTryPc(frame.script, tn),
                               !.events = Append(@, <<"UnwindScope",
                                              UnwindScopeToTryPc(frame.script, tn)>>)]
                       ELSE st
            framePointer == frame.fp - BaselineFrame_FramePointerOffset
            s1 == [unwound EXCEPT
                     !.rfe.framePointer = framePointer,
                     !.rfe.stackPointer = framePointer - BaselineFrame_Size
                         - (frame.script.nfixed + tn.stackDepth) * SizeofValue]
            target == nativeCodeForPC(frame.script, tn.start + tn.length)
        IN  CASE tn.kind = "JSTRY_CATCH" ->
                   IF s1.exception = "none"
                      \/ ~getPendingException(s1.exception, env.getOK[i])
                      \/ s1.exception = "closing"
                   THEN BaselineTryNotes_ExceptionKept(s1, frame, pc, env, i + 1)
                   ELSE [st |-> [s1 EXCEPT !.warmUpResets = @ + 1,
                                           !.rfe.kind = "RESUME_CATCH",
                                           !.rfe.target = target],
                         returned |-> TRUE]
              [] tn.kind = "JSTRY_FINALLY" ->
                   IF s1.exception = "none"
                   THEN BaselineTryNotes_ExceptionKept(s1, frame, pc, env, i + 1)
                   ELSE [st |-> [s1 EXCEPT
                                   !.rfe.kind = "RESUME_FINALLY",
                                   !.rfe.target = target,
                                   !.rfe.exception = IF getPendingException(s1.exception, env.getOK[i])
                                                     THEN s1.exception
                                                     ELSE "undefined"],
                         returned |-> TRUE]
              [] tn.kind = "JSTRY_ITER" ->
                   BaselineTryNotes_ExceptionKept(
                       [s1 EXCEPT !.events = Append(@,
                           IF s1.exception # "none"
                           THEN <<"UnwindIteratorForException", i>>
                           ELSE <<"UnwindIteratorForUncatchableException", i>>)],
                       frame, pc, env, i + 1)
              [] OTHER -> BaselineTryNotes_ExceptionKept(s1, frame, pc, env, i + 1)

\* The try-note loop of HandleExceptionBaseline, from note i on.  The result
\* carries returned = TRUE when the loop returned from the function.
RECURSIVE BaselineTryNotes(_, _, _, _, _)
BaselineTryNotes(st, frame, pc, env, i) ==
    IF i > Len(frame.script.trynotes) THEN [st |-> st, returned |-> FALSE]
    ELSE
    LET tn == frame.script.trynotes[i]
        stackDepth == frame.numValueSlots - frame.script.nfixed
    IN  IF ~TryNoteApplies(tn, pc, stackDepth)
        THEN BaselineTryNotes(st, frame, pc, env, i + 1)
        ELSE
        LET unwound == IF st.exception # "none"
                       THEN [st EXCEPT
                               !.unwoundScopeToPc = UnwindScopeToTryPc(frame.script, tn),
                               !.events = Append(@, <<"UnwindScope",
                                              UnwindScopeToTryPc(frame.script, tn)>>)]
                       ELSE st
            framePointer == frame.fp - BaselineFrame_FramePointerOffset
            s1 == [unwound EXCEPT
                     !.rfe.framePointer = framePointer,
                     !.rfe.stackPointer = framePointer - BaselineFrame_Size
                         - (frame.script.nfixed + tn.stackDepth) * SizeofValue]
            target == nativeCodeForPC(frame.script, tn.start + tn.length)
        IN  CASE tn.kind = "JSTRY_CATCH" ->
                   IF s1.exception = "none"
                      \/ ~getPendingException(s1.exception, env.getOK[i])
                      \/ s1.exception = "closing"
                   THEN BaselineTryNotes(s1, frame, pc, env, i + 1)
                   ELSE [st |-> [s1 EXCEPT !.warmUpResets = @ + 1,
                                           !.rfe.kind = "RESUME_CATCH",
                                           !.rfe.target = target],
                         returned |-> TRUE]
              [] tn.kind = "JSTRY_FINALLY" ->
                   IF s1.exception = "none"
                   THEN BaselineTryNotes(s1, frame, pc, env, i + 1)
                   ELSE [st |-> [s1 EXCEPT
                                   !.rfe.kind = "RESUME_FINALLY",
                                   !.rfe.target = target,
                                   !.rfe.exception = IF getPendingException(s1.exception, env.getOK[i])
                                                     THEN s1.exception
                                                     ELSE "undefined",
                                   !.exception = "none"],
                         returned |-> TRUE]
              [] tn.kind = "JSTRY_ITER" ->
                   BaselineTryNotes(
                       [s1 EXCEPT !.events = Append(@,
                           IF s1.exception # "none"
                           THEN <<"UnwindIteratorForException", i>>
                           ELSE <<"UnwindIteratorForUncatchableException", i>>)],
                       frame, pc, env, i + 1)
              [] OTHER -> BaselineTryNotes(s1, frame, pc, env, i + 1)

\* A handler that performs the forced return without clearing the flag.
HandleExceptionBaseline_FlagKept(cx, frame, rfe, env) ==
    LET st0 == HandlerState(cx, rfe)
        pc == frame.pc
    IN  IF st0.propagatingForcedReturn
        THEN ForcedReturn(st0, frame, pc, env)
        ELSE
        LET hook == st0.exception # "none" /\ cx.isDebuggee
                    /\ getPendingException(st0.exception, env.getOKHook)
                    /\ st0.exception # "closing"
            hooked == [st0 EXCEPT !.events = Append(@, <<"onExceptionUnwind", pc>>)]
            st1 == IF ~hook THEN st0
                   ELSE IF env.trap = "JSTRAP_ERROR"
                        THEN [hooked EXCEPT !.exception = "none"]
                        ELSE hooked
        IN  IF hook /\ env.trap = "JSTRAP_RETURN"
            THEN ForcedReturn(hooked, frame, pc, env)
            ELSE IF Len(frame.script.trynotes) = 0
            THEN HandleClosingGeneratorReturn(st1, frame, pc, env)
            ELSE LET r == BaselineTryNotes(st1, frame, pc, env, 1)
                 IN  IF r.returned THEN r.st
                     ELSE HandleClosingGeneratorReturn(r.st, frame, pc, env)

\* HandleExceptionBaseline.  frame is the baseline frame (its script, the pc
\* baselineScriptAndPc resolves, its value slots, its debuggee flag); env
\* holds what the collaborators answer during this call: env.trap is the
\* status of Debugger::onExceptionUnwind, env.epilogueOK the result of
\* jit::DebugEpilogue, and env.getOKHook, env.getOK[k], env.getOKClosing
\* whether cx->getPendingException succeeds before the hook, at try note k and
\* in HandleClosingGeneratorReturn.
HandleExceptionBaseline(cx, frame, rfe, env) ==
    LET st0 == HandlerState(cx, rfe)
        pc == frame.pc
    IN  IF st0.propagatingForcedReturn
        THEN ForcedReturn([st0 EXCEPT !.propagatingForcedReturn = FALSE],
                          frame, pc, env)
        ELSE
        LET hook == st0.exception # "none" /\ cx.isDebuggee
                    /\ getPendingException(st0.exception, env.getOKHook)
                    /\ st0.exception # "closing"
            hooked == [st0 EXCEPT !.events = Append(@, <<"onExceptionUnwind", pc>>)]
            st1 == IF ~hook THEN st0
                   ELSE IF env.trap = "JSTRAP_ERROR"
                        THEN [hooked EXCEPT !.exception = "none"]
                        ELSE hooked
        IN  IF hook /\ env.trap = "JSTRAP_RETURN"
            THEN ForcedReturn(hooked, frame, pc, env)
            ELSE IF Len(frame.script.trynotes) = 0
            THEN HandleClosingGeneratorReturn(st1, frame, pc, env)
            ELSE LET r == BaselineTryNotes(st1, frame, pc, env, 1)
                 IN  IF r.returned THEN r.st
                     ELSE HandleClosingGeneratorReturn(r.st, frame, pc, env)

\* -------------------------------------------------------- HandleExceptionIon

\* A loop that returns after a failed bailout as it does after a successful
\* one.
RECURSIVE IonTryNotes_StopOnError(_, _, _, _)
IonTryNotes_StopOnError(st, inl, env, i) ==
    IF i > Len(inl.script.trynotes) THEN st
    ELSE
    LET tn == inl.script.trynotes[i]
    IN  IF inl.pc < tn.start \/ inl.pc >= tn.start + tn.length
        THEN IonTryNotes_StopOnError(st, inl, env, i + 1)
        ELSE CASE tn.kind = "JSTRY_ITER" ->
                    IonTryNotes_StopOnError([st EXCEPT !.events = Append(@,
                                    <<"CloseLiveIterator", inl.frameNo, tn.stackDepth>>)],
                                inl, env, i + 1)
               [] tn.kind = "JSTRY_LOOP" -> IonTryNotes_StopOnError(st, inl, env, i + 1)
               [] tn.kind = "JSTRY_CATCH" ->
                    IF st.exception = "none" THEN IonTryNotes_StopOnError(st, inl, env, i + 1)
                    ELSE LET bail == [st EXCEPT
                                 !.warmUpResets = @ + 1,
                                 !.events = @ \o <<<<"resetWarmUpCounter", inl.frameNo>>,
                                     <<"ExceptionHandlerBailout", inl.frameNo,
                                       tn.start + tn.length, tn.stackDepth>>>>]
                         IN  IF env.bailoutOK[i]
                             THEN [bail EXCEPT !.rfe.kind = "RESUME_BAILOUT"]
                             ELSE [bail EXCEPT !.exception = "none",
                                               !.overrecursed = @ \/ env.overrecursed]
               [] OTHER -> [st EXCEPT !.crashed = TRUE]

\* A loop that bails out to the end of a FINALLY note as it does for a CATCH
\* note.
RECURSIVE IonTryNotes_Finally(_, _, _, _)
IonTryNotes_Finally(st, inl, env, i) ==
    IF i > Len(inl.script.trynotes) THEN st
    ELSE
    LET tn == inl.script.trynotes[i]
    IN  IF inl.pc < tn.start \/ inl.pc >= tn.start + tn.length
        THEN IonTryNotes_Finally(st, inl, env, i + 1)
        ELSE CASE tn.kind = "JSTRY_ITER" ->
                    IonTryNotes_Finally([st EXCEPT !.events = Append(@,
                                    <<"CloseLiveIterator", inl.frameNo, tn.stackDepth>>)],
                                inl, env, i + 1)
               [] tn.kind = "JSTRY_LOOP" -> IonTryNotes_Finally(st, inl, env, i + 1)
               [] tn.kind \in {"JSTRY_CATCH", "JSTRY_FINALLY"} ->
                    IF st.exception = "none" THEN IonTryNotes_Finally(st, inl, env, i + 1)
                    ELSE LET bail == [st EXCEPT
                                 !.warmUpResets = @ + 1,
                                 !.events = @ \o <<<<"resetWarmUpCounter", inl.frameNo>>,
                                     <<"ExceptionHandlerBailout", inl.frameNo,
                                       tn.start + tn.length, tn.stackDepth>>>>]
                         IN  IF env.bailoutOK[i]
                             THEN [bail EXCEPT !.rfe.kind = "RESUME_BAILOUT"]
                             ELSE IonTryNotes_Finally(
                                      [bail EXCEPT !.exception = "none",
                                                   !.overrecursed = @ \/ env.overrecursed],
                                      inl, env, i + 1)
               [] OTHER -> [st EXCEPT !.crashed = TRUE]

\* The try-note loop of HandleExceptionIon for one inlined frame, from note i
\* on.  env.bailoutOK[k] is whether ExceptionHandlerBailout returns
\* BAILOUT_RETURN_OK for try note k (k = 0: the debug-mode bailout); a
\* successful bailout hands back RESUME_BAILOUT, a failed one clears the
\* pending exception and may report over-recursion (env.overrecursed).
RECURSIVE IonTryNotes(_, _, _, _)
IonTryNotes(st, inl, env, i) ==
    IF i > Len(inl.script.trynotes) THEN st
    ELSE
    LET tn == inl.script.trynotes[i]
    IN  IF inl.pc < tn.start \/ inl.pc >= tn.start + tn.length
        THEN IonTryNotes(st, inl, env, i + 1)
        ELSE CASE tn.kind = "JSTRY_ITER" ->
                    IonTryNotes([st EXCEPT !.events = Append(@,
                                    <<"CloseLiveIterator", inl.frameNo, tn.stackDepth>>)],
                                inl, env, i + 1)
               [] tn.kind = "JSTRY_LOOP" -> IonTryNotes(st, inl, env, i + 1)
               [] tn.kind = "JSTRY_CATCH" ->
                    IF st.exception = "none" THEN IonTryNotes(st, inl, env, i + 1)
                    ELSE LET bail == [st EXCEPT
                                 !.warmUpResets = @ + 1,
                                 !.events = @ \o <<<<"resetWarmUpCounter", inl.frameNo>>,
                                     <<"ExceptionHandlerBailout", inl.frameNo,
                                       tn.start + tn.length, tn.stackDepth>>>>]
                         IN  IF env.bailoutOK[i]
                             THEN [bail EXCEPT !.rfe.kind = "RESUME_BAILOUT"]
                             ELSE IonTryNotes(
                                      [bail EXCEPT !.exception = "none",
                                                   !.overrecursed = @ \/ env.overrecursed],
                                      inl, env, i + 1)
               [] OTHER -> [st EXCEPT !.crashed = TRUE]

\* HandleExceptionIon for the inlined frame inl = [script, pc, frameNo].
\* env.shouldBail: the compartment is a debuggee and either a live
\* onExceptionUnwind hook exists or the rematerialized frame is a debuggee.
HandleExceptionIon(st, inl, env) ==
    LET debugBail == [st EXCEPT !.events = Append(@,
                         <<"ExceptionHandlerBailout", inl.frameNo, NoPc, 0>>)]
    IN  IF env.shouldBail /\ env.bailoutOK[0]
        THEN [debugBail EXCEPT !.rfe.kind = "RESUME_BAILOUT"]
        ELSE LET s1 == IF env.shouldBail
                       THEN [debugBail EXCEPT !.exception = "none",
                                              !.overrecursed = @ \/ env.overrecursed]
                       ELSE st
             IN  IF Len(inl.script.trynotes) = 0 THEN s1
                 ELSE IonTryNotes(s1, inl, env, 1)

\* ------------------------------------------------------------ activations

\* Where the top frame of the k-th activation lies.
ActivationBase(k) == 100 * k

\* BailoutFrameInfo of an activation: fp(), topFrameSize(), ionScript().
NoBailoutData == [active |-> FALSE, fp |-> NULL, topFrameSize |-> 0, ionScript |-> NULL]

\* The activations whose frames are the chain kinds, at base.
ActivationsOf(kinds, base) ==
    {[frames |-> MakeFrames(kinds, shift, base),
      jitTop |-> base,
      bailoutData |-> IF kinds[1] = "JitFrame_Bailout"
                      THEN [active |-> TRUE, fp |-> base,
                            topFrameSize |-> LocalSize(1, shift),
                            ionScript |-> IonScriptOf(base, 1)]
                      ELSE NoBailoutData] :
        shift \in {0, 1}}

\* The lists of activations of a thread, newest first, of k activations and
\* at most budget frames, the first at index from.
RECURSIVE ActivationLists(_, _, _)
ActivationLists(k, budget, from) ==
    IF k = 0 THEN {<< >>}
    ELSE UNION {
            {<<a>> \o rest :
                a \in ActivationsOf(kinds, ActivationBase(from)),
                rest \in ActivationLists(k - 1, budget - Len(kinds), from + 1)} :
            kinds \in UNION {KindChains(n) : n \in 1..(budget - 2 * (k - 1))}}

\* ---------------------------------------------------------- HandleException

\* An invalidation check that looks at the script in every execution mode.
checkInvalidation_NoMode(it, bailoutData, scriptIon) ==
    IF isBailoutJS(it)
    THEN [invalidated |-> scriptIon = NULL \/ scriptIon # bailoutData.ionScript,
          ionScript |-> bailoutData.ionScript]
    ELSE LET invalidated ==
                 scriptIon = NULL
                 \/ ~containsReturnAddress(scriptIon, it.returnAddressToFp)
         IN  IF ~invalidated THEN [invalidated |-> FALSE, ionScript |-> NULL]
             ELSE [invalidated |-> TRUE,
                   ionScript |-> IonScriptAtReturnAddress(it.returnAddressToFp)]

\* An invalidation check that answers with the IonScript the script holds now.
checkInvalidation_Current(it, bailoutData, scriptIon) ==
    IF isBailoutJS(it)
    THEN [invalidated |-> scriptIon = NULL \/ scriptIon # bailoutData.ionScript,
          ionScript |-> bailoutData.ionScript]
    ELSE LET invalidated ==
                 IF it.mode = "ParallelExecution" THEN FALSE
                 ELSE scriptIon = NULL
                      \/ ~containsReturnAddress(scriptIon, it.returnAddressToFp)
         IN  IF ~invalidated THEN [invalidated |-> FALSE, ionScript |-> NULL]
             ELSE [invalidated |-> TRUE, ionScript |-> scriptIon]

\* JitFrameIterator::checkInvalidation for the Ion frame the iterator stands
\* on; scriptIon is the IonScript its script holds now.
checkInvalidation(it, bailoutData, scriptIon) ==
    IF isBailoutJS(it)
    THEN [invalidated |-> scriptIon = NULL \/ scriptIon # bailoutData.ionScript,
          ionScript |-> bailoutData.ionScript]
    ELSE LET invalidated ==
                 IF it.mode = "ParallelExecution" THEN FALSE
                 ELSE scriptIon = NULL
                      \/ ~containsReturnAddress(scriptIon, it.returnAddressToFp)
         IN  IF ~invalidated THEN [invalidated |-> FALSE, ionScript |-> NULL]
             ELSE [invalidated |-> TRUE,
                   ionScript |-> IonScriptAtReturnAddress(it.returnAddressToFp)]

\* frameCount_ of an InlineFrameIterator that has not counted its frames yet:
\* the all-ones 32-bit word, written as the signed number of that pattern.
UINT32_MAX == -1

\* A search that settles on the outermost frame first and moves inwards.
findNextFrame_OuterFirst(frames, numFrames) ==
    LET i == IF frames.framesRead + 1 < numFrames THEN frames.framesRead + 1
             ELSE numFrames
    IN  [frameCount |-> numFrames, framesRead |-> frames.framesRead + 1, depth |-> i]

\* A search that counts the frames again on every call.
findNextFrame_Recount(frames, numFrames) ==
    LET frameNo == frames.frameCount - frames.framesRead
        i == IF frames.frameCount # UINT32_MAX /\ frameNo - 1 < numFrames - 1
             THEN frameNo
             ELSE numFrames
    IN  [frameCount |-> i, framesRead |-> frames.framesRead + 1, depth |-> i]

\* InlineFrameIterator::findNextFrame on a frame whose snapshot holds
\* numFrames logical frames, the outermost first.  The loop starts at the
\* outermost frame (i = 1) and goes one frame inwards per iteration while
\* i <= remaining and the snapshot has more frames; depth is the position,
\* counted from the outermost frame, it settles on.
findNextFrame(frames, numFrames) ==
    LET frameNo == frames.frameCount - frames.framesRead
        i == IF frames.frameCount # UINT32_MAX /\ frameNo - 1 < numFrames - 1
             THEN frameNo
             ELSE numFrames
    IN  [frameCount |-> IF frames.frameCount = UINT32_MAX THEN i ELSE frames.frameCount,
         framesRead |-> frames.framesRead + 1,
         depth |-> i]

\* A loop that releases the IonScript once for every inlined frame.
HandleInlineFrame_DecEach(cx, rfe, frames, inl, env) ==
    LET st == HandleExceptionIon(HandlerState(cx, rfe),
                  [script |-> inl.script, pc |-> inl.pc, frameNo |-> frames.frameNo],
                  env)
        dec == IF frames.invalidated THEN 1 ELSE 0
    IN  IF st.crashed
        THEN [st |-> st, returned |-> TRUE, more |-> FALSE, decrements |-> 0]
        ELSE IF st.rfe.kind = "RESUME_BAILOUT"
        THEN [st |-> st, returned |-> TRUE, more |-> FALSE, decrements |-> dec]
        ELSE IF frames.frameNo > 0
        THEN [st |-> st, returned |-> FALSE, more |-> TRUE, decrements |-> dec]
        ELSE [st |-> st, returned |-> FALSE, more |-> FALSE, decrements |-> dec]

\* One iteration of the for (;;) loop of HandleException over the inlined
\* frames of an Ion frame.  frames is the InlineFrameIterator: frameNo, with
\* the invalidation state of the frame; inl the script and pc it stands on.
\* decrements counts the decrementInvalidationCount calls; more is whether
\* the loop goes on with ++frames.
HandleInlineFrame(cx, rfe, frames, inl, env) ==
    LET st == HandleExceptionIon(HandlerState(cx, rfe),
                  [script |-> inl.script, pc |-> inl.pc, frameNo |-> frames.frameNo],
                  env)
        dec == IF frames.invalidated THEN 1 ELSE 0
    IN  IF st.crashed
        THEN [st |-> st, returned |-> TRUE, more |-> FALSE, decrements |-> 0]
        ELSE IF st.rfe.kind = "RESUME_BAILOUT"
        THEN [st |-> st, returned |-> TRUE, more |-> FALSE, decrements |-> dec]
        ELSE IF frames.frameNo > 0
        THEN [st |-> st, returned |-> FALSE, more |-> TRUE, decrements |-> 0]
        ELSE [st |-> st, returned |-> FALSE, more |-> FALSE, decrements |-> dec]

\* A loop body that does not consult calledDebugEpilogue.
HandleBaselineFrame_FlagIgnored(cx, rfe, it, body, env) ==
    LET frame == [script |-> body.script, pc |-> body.pc,
                  numValueSlots |-> body.numValueSlots,
                  isDebuggee |-> body.isDebuggee, fp |-> it.current]
        st == HandleExceptionBaseline(cx, frame, rfe, env)
    IN  IF st.rfe.kind # "RESUME_ENTRY_FRAME"
        THEN [st |-> st, returned |-> TRUE]
        ELSE IF body.isDebuggee
        THEN LET s1 == IF st.unwoundScopeToPc # NoPc
                       THEN [st EXCEPT !.overridePc = st.unwoundScopeToPc]
                       ELSE st
                 pc == IF s1.overridePc # NoPc THEN s1.overridePc ELSE body.pc
                 s2 == [s1 EXCEPT !.events = Append(@, <<"DebugEpilogue", pc>>)]
             IN  IF env.epilogueOK
                 THEN [st |-> [s2 EXCEPT
                          !.rfe.kind = "RESUME_FORCED_RETURN",
                          !.rfe.framePointer = it.current - BaselineFrame_FramePointerOffset,
                          !.rfe.stackPointer = it.current - BaselineFrame_FramePointerOffset
                                                  - BaselineFrame_Size],
                       returned |-> TRUE]
                 ELSE [st |-> s2, returned |-> FALSE]
        ELSE [st |-> st, returned |-> FALSE]

\* The BaselineJS branch of the loop body of HandleException.
\* DebugEpilogue runs at most once for a frame (calledDebugEpilogue), so
\* env.epilogueOK is the result of the call made here as well.
HandleBaselineFrame(cx, rfe, it, body, env) ==
    LET frame == [script |-> body.script, pc |-> body.pc,
                  numValueSlots |-> body.numValueSlots,
                  isDebuggee |-> body.isDebuggee, fp |-> it.current]
        st == HandleExceptionBaseline(cx, frame, rfe, env)
    IN  IF st.rfe.kind # "RESUME_ENTRY_FRAME"
        THEN [st |-> st, returned |-> TRUE]
        ELSE IF body.isDebuggee /\ ~st.calledDebugEpilogue
        THEN LET s1 == IF st.unwoundScopeToPc # NoPc
                       THEN [st EXCEPT !.overridePc = st.unwoundScopeToPc]
                       ELSE st
                 pc == IF s1.overridePc # NoPc THEN s1.overridePc ELSE body.pc
                 s2 == [s1 EXCEPT !.events = Append(@, <<"DebugEpilogue", pc>>)]
             IN  IF env.epilogueOK
                 THEN [st |-> [s2 EXCEPT
                          !.rfe.kind = "RESUME_FORCED_RETURN",
                          !.rfe.framePointer = it.current - BaselineFrame_FramePointerOffset,
                          !.rfe.stackPointer = it.current - BaselineFrame_FramePointerOffset
                                                  - BaselineFrame_Size],
                       returned |-> TRUE]
                 ELSE [st |-> s2, returned |-> FALSE]
        ELSE [st |-> st, returned |-> FALSE]

TrapStatuses == {"JSTRAP_ERROR", "JSTRAP_CONTINUE", "JSTRAP_THROW", "JSTRAP_RETURN"}

\* What the collaborators answer during one call of HandleExceptionBaseline
\* on a script: the trap status of the hook, the result of DebugEpilogue, and
\* whether cx->getPendingException succeeds (at every call or at none).
BaselineEnvs(script) ==
    {[trap |-> t, epilogueOK |-> e, getOKHook |-> g, getOKClosing |-> g,
      getOK |-> [k \in 1..Len(script.trynotes) |-> g]] :
        t \in TrapStatuses, e \in BOOLEAN, g \in BOOLEAN}

\* What the collaborators can answer during HandleExceptionIon on one inlined
\* frame: within one inlined frame every ExceptionHandlerBailout call fails
\* or every call succeeds.
IonEnvs(script, isDebuggee) ==
    {[shouldBail |-> sb, overrecursed |-> o,
      bailoutOK |-> [k \in 0..Len(script.trynotes) |-> ok]] :
        sb \in (IF isDebuggee THEN BOOLEAN ELSE {FALSE}),
        ok \in BOOLEAN,
        o \in BOOLEAN}

\* ------------------------------------------------------- the thread's state

VARIABLES
    activations,  \* the JIT activations of the thread, newest first
    cx,           \* pending exception, forced-return flag, debuggee flag
    mode,         \* the execution mode of the thread's context
    pc,           \* where HandleException stands
    iter,         \* the iterator of HandleException
    rfe,          \* the ResumeFromException HandleException fills in
    heCurrent,    \* the local |current| of HandleException
    overrecursed, \* the local |overrecursed| of HandleException
    last,         \* what the loop body did with the frame it examined last
    wpc,          \* where a stack walk nested in a stopping point stands
    witer,        \* the iterator of that walk
    wact,         \* the activation that walk is over
    visited,      \* the positions that walk has stood on
    markLog,      \* what the latest MarkJitActivations did
    bl,           \* one call of HandleExceptionBaseline: its inputs and outcome
    mk,           \* one marking of an Ion frame: its inputs and outcome
    sn            \* the recover results of an activation and their readers

vars == <<activations, cx, mode, pc, iter, rfe, heCurrent, overrecursed, last,
          wpc, witer, wact, visited, markLog, bl, mk, sn>>

\* The state of the parts of the program that a specification leaves alone.
NoBl == [phase |-> "none"]
NoMk == [phase |-> "none"]
NoSn == [phase |-> "none"]

NoIter == [current |-> NULL, type |-> "none", returnAddressToFp |-> NULL,
           frameSize |-> 0, mode |-> "SequentialExecution",
           cachedSafepointIndex |-> NULL]

\* kind and addr: the frame examined; returned: HandleException returned from
\* it; frameNo, frameCount, depth, invalidated, ionScript: the
\* InlineFrameIterator (depth is the position of the inlined frame it stands
\* on, counted from the outermost) and the invalidation state of an Ion
\* frame; decrements: the calls of decrementInvalidationCount made for it;
\* epilogues: the calls of jit::DebugEpilogue made for a baseline frame;
\* calledDebugEpilogue: the local flag of the loop body after the frame;
\* isDebuggee: baselineFrame()->isDebuggee() of the frame.
NoLast == [kind |-> "none", addr |-> NULL, returned |-> FALSE, frameNo |-> 0,
           frameCount |-> 0, depth |-> 0,
           invalidated |-> FALSE, ionScript |-> NULL, decrements |-> 0,
           epilogues |-> 0, calledDebugEpilogue |-> FALSE, isDebuggee |-> FALSE]

\* A thread enters with an exception pending (an ordinary one or the
\* generator-closing magic) or with a forced return being propagated.
Contexts ==
    {c \in [exception : {"none", "normal", "closing"},
            propagatingForcedReturn : BOOLEAN, isDebuggee : BOOLEAN] :
        (c.exception = "none") = c.propagatingForcedReturn}

Init ==
    /\ activations \in UNION {ActivationLists(k, MaxFrames, 1) : k \in 1..MaxActivations}
    /\ cx \in Contexts
    /\ mode \in {"SequentialExecution", "ParallelExecution"}
    /\ pc = "idle"
    /\ iter = NoIter
    /\ rfe = InitialRfe
    /\ heCurrent = NULL
    /\ overrecursed = FALSE
    /\ last = NoLast
    /\ wpc = "none"
    /\ witer = NoIter
    /\ wact = 0
    /\ visited = << >>
    /\ markLog = << >>
    /\ bl = NoBl
    /\ mk = NoMk
    /\ sn = NoSn

\* The points at which code outside the unwinder runs and can walk the stack:
\* before HandleException and inside the handling of a frame (hooks, bailouts
\* and allocation can all start a collection).  One walk is observed at each.
AtStoppingPoint ==
    /\ pc \in {"idle", "he_loop"}
    /\ wpc = "none"
    /\ visited = << >>
    /\ markLog = << >>

heVars == <<cx, pc, iter, rfe, heCurrent, overrecursed, last, activations>>

\* A stack walk starts: for (JitFrameIterator frames(activations); ...).
WalkStart ==
    /\ AtStoppingPoint
    /\ \E k \in 1..Len(activations) :
        /\ wact' = k
        /\ witer' = JitFrameIterator(activations[k], mode)
    /\ wpc' = "walk"
    /\ visited' = <<[addr |-> witer'.current, type |-> witer'.type]>>
    /\ UNCHANGED <<bl, mk, sn, heVars, mode, markLog>>

\* ++frames
WalkStep ==
    /\ wpc = "walk"
    /\ ~done(witer)
    /\ witer.type # "crashed"
    /\ witer' = Increment(activations[wact].frames, witer)
    /\ visited' = IF done(witer') THEN visited
                  ELSE Append(visited, [addr |-> witer'.current, type |-> witer'.type])
    /\ UNCHANGED <<bl, mk, sn, heVars, mode, markLog, wpc, wact>>

\* frames.safepoint() on the Ion frame the walk stands on
WalkSafepoint ==
    /\ wpc = "walk"
    /\ isIonJS(witer)
    /\ witer' = safepoint(witer)
    /\ UNCHANGED <<bl, mk, sn, heVars, mode, markLog, wpc, wact, visited>>

\* frames.done()
WalkEnd ==
    /\ wpc = "walk"
    /\ done(witer)
    /\ wpc' = "none"
    /\ UNCHANGED <<bl, mk, sn, heVars, mode, markLog, witer, wact, visited>>

\* MarkJitActivations(ptd, trc)
Mark ==
    /\ AtStoppingPoint
    /\ markLog' = MarkJitActivations(activations, mode, 1)
    /\ UNCHANGED <<bl, mk, sn, heVars, mode, wpc, witer, wact, visited>>

\* The IonScript whose code the Ion frame under the iterator runs.
FrameIonScript(act, it) ==
    IF isBailoutJS(it) THEN act.bailoutData.ionScript
    ELSE IonScriptAtReturnAddress(it.returnAddressToFp)

\* HandleException starts: DebugModeOSRVolatileJitFrameIterator iter(cx).
\* It runs on the newest activation, on a JSContext, from the exception tail
\* of JIT code: no bailout of that activation is in flight.
HEStart ==
    /\ pc = "idle"
    /\ wpc = "none"
    /\ mode = "SequentialExecution"
    /\ ~activations[1].bailoutData.active
    /\ pc' = "he_loop"
    /\ rfe' = [rfe EXCEPT !.kind = "RESUME_ENTRY_FRAME"]
    /\ iter' = JitFrameIterator(activations[1], mode)
    /\ visited' = << >>
    /\ markLog' = << >>
    /\ UNCHANGED <<bl, mk, sn, activations, cx, mode, heCurrent, overrecursed, last, wpc, witer, wact>>

\* The loop body reaches an Ion frame: InlineFrameIterator frames(cx, &iter)
\* settles on the innermost inlined frame, and checkInvalidation is asked.
HEIonEnter ==
    /\ pc = "he_loop"
    /\ wpc = "none"
    /\ isIonJS(iter)
    /\ \E n \in 1..MaxInline :
       \E scriptIon \in ScriptIonChoices(FrameIonScript(activations[1], iter)) :
         LET inv == checkInvalidation(iter, activations[1].bailoutData, scriptIon)
             frames == findNextFrame([frameCount |-> UINT32_MAX, framesRead |-> 0], n)
         IN  last' = [NoLast EXCEPT !.kind = "JitFrame_IonJS", !.addr = iter.current,
                                    !.frameNo = frames.frameCount - frames.framesRead,
                                    !.frameCount = frames.frameCount,
                                    !.depth = frames.depth,
                                    !.invalidated = inv.invalidated,
                                    !.ionScript = inv.ionScript]
    /\ overrecursed' = FALSE
    /\ pc' = "he_ion"
    /\ visited' = << >>
    /\ markLog' = << >>
    /\ UNCHANGED <<bl, mk, sn, activations, cx, mode, iter, rfe, heCurrent, wpc, witer, wact>>

\* One iteration of the loop over the inlined frames.
HEIonInline ==
    /\ pc = "he_ion"
    /\ \E inl \in InlineBodies :
       \E env \in IonEnvs(inl.script, cx.isDebuggee) :
         LET r == HandleInlineFrame(cx, rfe, last, inl, env)
             frames == findNextFrame([frameCount |-> last.frameCount,
                                      framesRead |-> last.frameCount - last.frameNo],
                                     last.frameCount)
         IN  /\ rfe' = r.st.rfe
             /\ cx' = [cx EXCEPT !.exception = r.st.exception,
                                 !.propagatingForcedReturn = r.st.propagatingForcedReturn]
             /\ overrecursed' = (overrecursed \/ r.st.overrecursed)
             /\ last' = [last EXCEPT
                            !.returned = r.returned,
                            !.decrements = @ + r.decrements,
                            !.frameNo = IF r.more
                                        THEN frames.frameCount - frames.framesRead
                                        ELSE @,
                            !.depth = IF r.more THEN frames.depth ELSE @]
             /\ pc' = IF r.st.crashed THEN "crashed"
                      ELSE IF r.returned THEN "done"
                      ELSE IF r.more THEN "he_ion" ELSE "he_inc"
    /\ UNCHANGED <<bl, mk, sn, activations, mode, iter, heCurrent, wpc, witer, wact, visited, markLog>>

\* The loop body on a baseline frame.
HEBaselineFrame ==
    /\ pc = "he_loop"
    /\ wpc = "none"
    /\ isBaselineJS(iter)
    /\ \E body \in BaselineBodies :
       \E env \in BaselineEnvs(body.script) :
         LET r == HandleBaselineFrame(cx, rfe, iter, body, env)
         IN  /\ rfe' = r.st.rfe
             /\ cx' = [cx EXCEPT !.exception = r.st.exception,
                                 !.propagatingForcedReturn = r.st.propagatingForcedReturn]
             /\ last' = [NoLast EXCEPT !.kind = "JitFrame_BaselineJS",
                                       !.addr = iter.current,
                                       !.returned = r.returned,
                                       !.epilogues = Cardinality(
                                           {i \in 1..Len(r.st.events) :
                                               r.st.events[i][1] = "DebugEpilogue"}),
                                       !.calledDebugEpilogue = r.st.calledDebugEpilogue,
                                       !.isDebuggee = body.isDebuggee]
             /\ pc' = IF r.returned THEN "done" ELSE "he_inc"
    /\ overrecursed' = FALSE
    /\ visited' = << >>
    /\ markLog' = << >>
    /\ UNCHANGED <<bl, mk, sn, activations, mode, iter, heCurrent, wpc, witer, wact>>

\* The loop body on any other frame: neither branch is taken.
HEOtherFrame ==
    /\ pc = "he_loop"
    /\ wpc = "none"
    /\ ~done(iter) /\ ~isIonJS(iter) /\ ~isBaselineJS(iter)
    /\ iter.type # "crashed"
    /\ last' = [NoLast EXCEPT !.kind = iter.type, !.addr = iter.current]
    /\ overrecursed' = FALSE
    /\ pc' = "he_inc"
    /\ visited' = << >>
    /\ markLog' = << >>
    /\ UNCHANGED <<bl, mk, sn, activations, cx, mode, iter, rfe, heCurrent, wpc, witer, wact>>

\* current = iter.isScripted() ? iter.jsFrame() : nullptr;  ++iter;
HEIncrement ==
    /\ pc = "he_inc"
    /\ heCurrent' = IF isScripted(iter) THEN iter.current ELSE NULL
    /\ iter' = Increment(activations[1].frames, iter)
    /\ pc' = "he_unwind"
    /\ UNCHANGED <<bl, mk, sn, activations, cx, mode, rfe, overrecursed, last, wpc, witer, wact,
                   visited, markLog>>

\* if (current) { EnsureExitFrame(current); jitTop = current; }
\* if (overrecursed) js_ReportOverRecursed(cx);
\* The locals go out of scope at the end of the loop body.
HEUnwind ==
    /\ pc = "he_unwind"
    /\ activations' =
          IF heCurrent # NULL
          THEN [activations EXCEPT
                  ![1].frames = EnsureExitFrame(@, heCurrent),
                  ![1].jitTop = heCurrent]
          ELSE activations
    /\ cx' = IF overrecursed THEN [cx EXCEPT !.exception = "normal"] ELSE cx
    /\ heCurrent' = NULL
    /\ overrecursed' = FALSE
    /\ pc' = "he_loop"
    /\ UNCHANGED <<bl, mk, sn, mode, iter, rfe, last, wpc, witer, wact, visited, markLog>>

\* The loop ends at the entry frame: rfe->stackPointer = iter.fp().
HEExit ==
    /\ pc = "he_loop"
    /\ wpc = "none"
    /\ done(iter)
    /\ rfe' = [rfe EXCEPT !.stackPointer = iter.current]
    /\ pc' = "done"
    /\ visited' = << >>
    /\ markLog' = << >>
    /\ UNCHANGED <<bl, mk, sn, activations, cx, mode, iter, heCurrent, overrecursed, last,
                   wpc, witer, wact>>

HEStep ==
    \/ HEIonEnter
    \/ HEIonInline
    \/ HEBaselineFrame
    \/ HEOtherFrame
    \/ HEIncrement
    \/ HEUnwind
    \/ HEExit

Next ==
    \/ WalkStart
    \/ WalkStep
    \/ WalkSafepoint
    \/ WalkEnd
    \/ Mark
    \/ HEStart
    \/ HEIonEnter
    \/ HEIonInline
    \/ HEBaselineFrame
    \/ HEOtherFrame
    \/ HEIncrement
    \/ HEUnwind
    \/ HEExit

Spec == Init /\ [][Next]_vars

\* The unwinder and a started walk are not suspended for ever: both are
\* straight-line code of one thread.
FairSpec == Spec /\ WF_vars(HEStep) /\ WF_vars(WalkStep \/ WalkEnd)

\* ------------------------------------------------------------- properties

\* The frames of an activation that are still on the stack: those from the
\* position a walk starts at (the bailing frame, or jitTop) outwards.
TopIndex(act) ==
    FrameIndex(act.frames, IF act.bailoutData.active THEN act.bailoutData.fp
                           ELSE act.jitTop)

LiveCount(act) == Len(act.frames) - TopIndex(act) + 1

LiveFrame(act, i) == act.frames[TopIndex(act) + i - 1]

\* A walk has stood on the live frames in stack order, innermost first, one
\* position per frame, and has not aborted; at the entry frame it has stood
\* on all of them.
WalkInOrder ==
    wpc = "walk" =>
        /\ witer.type # "crashed"
        /\ Len(visited) <= LiveCount(activations[wact])
        /\ \A i \in 1..Len(visited) :
              visited[i].addr = LiveFrame(activations[wact], i).addr
        /\ \A i \in 1..(Len(visited) - 1) : visited[i].addr < visited[i+1].addr
        /\ done(witer) => Len(visited) = LiveCount(activations[wact])

\* The iterator of HandleException stands on a live frame or is done, and
\* has not aborted.
UnwinderOnStack ==
    pc \in {"he_loop", "he_ion", "he_inc"} =>
        /\ iter.type # "crashed"
        /\ done(iter) \/ HasFrameAt(activations[1].frames, iter.current)

\* C1: from the initial Exit or Bailout position, operator++ stands on the
\* frames of a well-formed stack innermost to outermost, each exactly once,
\* and reaches the entry frame; the loop of HandleException ends, by returning
\* a handler outcome or at the entry frame.
C1_WalkReachesEntry ==
    /\ [](WalkInOrder /\ UnwinderOnStack)
    /\ (wpc = "walk") ~> (wpc = "walk" /\ done(witer))
    /\ (pc = "he_loop") ~> (pc = "done")
    /\ [](pc # "crashed")

\* A walk over a partly unwound stack has reached the entry frame after three
\* frames, the first of them a scripted frame turned into an exit frame.
C1_Witness ==
    /\ wpc = "walk" /\ done(witer)
    /\ pc = "he_loop"
    /\ Len(visited) = 3
    /\ TopIndex(activations[wact]) > 1

\* The routine the marking switch is said to run for the frame at live
\* position i of an activation, by what lies there.
RoutineOfFrame(act, i) ==
    IF i = 1
    THEN (IF act.bailoutData.active THEN "MarkBailoutFrame" ELSE "MarkJitExitFrame")
    ELSE CASE LiveFrame(act, i).kind = "JitFrame_BaselineJS" -> "BaselineFrame::trace"
           [] LiveFrame(act, i).kind = "JitFrame_BaselineStub" -> "MarkBaselineStubFrame"
           [] LiveFrame(act, i).kind = "JitFrame_IonJS" -> "MarkIonJSFrame"
           [] LiveFrame(act, i).kind = "JitFrame_Rectifier" -> "MarkRectifierFrame"
           [] OTHER -> "none"

\* MarkJitActivations has stood on every live frame of every activation once,
\* in order.
MarkedEveryFrame ==
    markLog # << >> =>
        /\ Len(markLog) = Len(activations)
        /\ \A k \in 1..Len(activations) :
              /\ Len(markLog[k]) = LiveCount(activations[k])
              /\ \A i \in 1..Len(markLog[k]) :
                    markLog[k][i].fp = LiveFrame(activations[k], i).addr

\* C2 as stated: every frame of every activation gets the marking routine of
\* its kind exactly once.
C2_EveryFrameItsRoutine ==
    /\ MarkedEveryFrame
    /\ markLog # << >> =>
          \A k \in 1..Len(activations) : \A i \in 1..Len(markLog[k]) :
              markLog[k][i].routine = RoutineOfFrame(activations[k], i)

\* C2: MarkJitActivations stands on every frame of every activation exactly
\* once and runs the routine of its kind, except that for a rectifier frame
\* reached through an unwound descriptor (iterator type Unwound_Rectifier) it
\* runs no routine at all.
C2_EveryFrameVisited ==
    /\ MarkedEveryFrame
    /\ markLog # << >> =>
          \A k \in 1..Len(activations) : \A i \in 1..Len(markLog[k]) :
              IF markLog[k][i].type = "JitFrame_Unwound_Rectifier"
              THEN /\ LiveFrame(activations[k], i).kind = "JitFrame_Rectifier"
                   /\ markLog[k][i].routine = "nothing"
              ELSE markLog[k][i].routine = RoutineOfFrame(activations[k], i)

\* A marking that met a rectifier frame behind an unwound descriptor, ran
\* nothing for it, and marked the Ion frame that called it.
C2_Witness ==
    /\ markLog # << >>
    /\ \E i \in 1..(Len(markLog[1]) - 1) :
          /\ markLog[1][i].type = "JitFrame_Unwound_Rectifier"
          /\ markLog[1][i].routine = "nothing"
          /\ markLog[1][i+1].routine = "MarkIonJSFrame"

\* The unwound tag of a caller type.
UnwoundTagOf(t) ==
    CASE t = "JitFrame_IonJS" -> "JitFrame_Unwound_IonJS"
      [] t = "JitFrame_BaselineJS" -> "JitFrame_Unwound_BaselineJS"
      [] t = "JitFrame_BaselineStub" -> "JitFrame_Unwound_BaselineStub"
      [] t = "JitFrame_Rectifier" -> "JitFrame_Unwound_Rectifier"
      [] OTHER -> t

ScriptedKinds == {"JitFrame_IonJS", "JitFrame_BaselineJS"}

\* C10: in HandleException jitTop changes only in the step that follows
\* ++iter, only for a scripted frame left without a handler, and to that
\* frame's address; in that step the frame's descriptor gets the unwound tag
\* of its caller (an entry caller keeps its tag) and nothing else changes on
\* the stack, the iterator stands on its caller already, and the next frame
\* is examined only afterwards.  A frame that is not scripted changes nothing.
C10_UnwindStep ==
    LET top == activations[1]
        top2 == activations'[1]
        at == FrameIndex(top.frames, last.addr)
    IN  /\ (pc = "he_unwind" /\ last.kind \in ScriptedKinds) =>
              /\ ~last.returned
              /\ top2.jitTop = last.addr
              /\ top2.frames = [top.frames EXCEPT
                                   ![at].prevType = UnwoundTagOf(top.frames[at].prevType)]
              /\ iter' = iter
              /\ IF at = Len(top.frames) THEN done(iter)
                 ELSE iter.current = top.frames[at + 1].addr
              /\ pc' = "he_loop"
        /\ (pc = "he_unwind" /\ last.kind \notin ScriptedKinds) =>
              activations' = activations
        /\ pc # "he_unwind" => activations' = activations

C10_JitTopFollowsUnwinding == [][C10_UnwindStep]_vars

\* A baseline frame has been left: with its baseline stub caller it is the
\* top of the stack now and the iterator stands on the stub.
C10_Witness ==
    /\ pc = "he_loop"
    /\ last.kind = "JitFrame_BaselineJS"
    /\ activations[1].jitTop = last.addr
    /\ TopIndex(activations[1]) = 2
    /\ LiveFrame(activations[1], 1).prevType = "JitFrame_Unwound_BaselineStub"
    /\ iter.type = "JitFrame_BaselineStub"

\* ------------------------------------- HandleExceptionBaseline on one frame

\* Try notes per script at most.
MaxNotes == 2

\* The frame stands at bytecode offset 1.  The notes: CATCH and FINALLY notes
\* around it at both stack depths and with different ends, CATCH notes that
\* end before it or start after it, an ITER and a LOOP note around it.
NoteChoices ==
    {TryNote("JSTRY_CATCH", 0, 3, 0), TryNote("JSTRY_CATCH", 1, 1, 1),
     TryNote("JSTRY_CATCH", 0, 1, 0), TryNote("JSTRY_CATCH", 2, 1, 0),
     TryNote("JSTRY_FINALLY", 0, 2, 0), TryNote("JSTRY_FINALLY", 1, 2, 1),
     TryNote("JSTRY_ITER", 1, 1, 1), TryNote("JSTRY_LOOP", 0, 3, 0)}

TryNoteTables == UNION {[1..n -> NoteChoices] : n \in 0..MaxNotes}

\* The baseline frames handed to HandleExceptionBaseline: stack depth 0 or 1.
HandledFrames ==
    {[script |-> MakeScript(t), pc |-> 1, numValueSlots |-> 1 + d,
      isDebuggee |-> dbg, fp |-> ActivationBase(1)] :
        t \in TryNoteTables, d \in {0, 1}, dbg \in BOOLEAN}

\* The thread outside HandleException and outside any walk.
ThreadAtRest ==
    /\ activations = << >>
    /\ cx = [exception |-> "none", propagatingForcedReturn |-> FALSE,
             isDebuggee |-> FALSE]
    /\ mode = "SequentialExecution"
    /\ pc = "none"
    /\ iter = NoIter
    /\ rfe = InitialRfe
    /\ heCurrent = NULL
    /\ overrecursed = FALSE
    /\ last = NoLast
    /\ wpc = "none"
    /\ witer = NoIter
    /\ wact = 0
    /\ visited = << >>
    /\ markLog = << >>

threadVars == <<activations, cx, mode, pc, iter, rfe, heCurrent, overrecursed, last,
                wpc, witer, wact, visited, markLog>>

InitBaseline ==
    /\ ThreadAtRest
    /\ bl \in {[phase |-> "ready", cx |-> c, frame |-> f] :
                  c \in Contexts, f \in HandledFrames}
              \cup {[phase |-> "ion_ready", cx |-> c,
                     inl |-> [script |-> MakeScript(t), pc |-> 1, frameNo |-> n,
                              stackDepth |-> d]] :
                       c \in Contexts, t \in TryNoteTables,
                       n \in 0..(MaxInline - 1), d \in {0, 1}}
    /\ mk = NoMk
    /\ sn = NoSn

\* HandleExceptionBaseline(cx, frame, rfe, &unwoundScopeToPc, &calledDebugEpilogue)
BaselineHandle ==
    /\ bl.phase = "ready"
    /\ \E env \in BaselineEnvs(bl.frame.script) :
          bl' = [phase |-> "handled", cx |-> bl.cx, frame |-> bl.frame, env |-> env,
                 st |-> HandleExceptionBaseline(bl.cx, bl.frame, InitialRfe, env)]
    /\ UNCHANGED <<threadVars, mk, sn>>

\* HandleExceptionIon(cx, frames, rfe, &overrecursed, &popSPSFrame) on one
\* inlined frame: script, pc and frameNo are what the InlineFrameIterator
\* gives, stackDepth is the number of expression-stack values of the frame.
\* Each call of ExceptionHandlerBailout succeeds or fails on its own.
IonHandle ==
    /\ bl.phase = "ion_ready"
    /\ \E sb \in (IF bl.cx.isDebuggee THEN BOOLEAN ELSE {FALSE}), o \in BOOLEAN,
          ok \in [0..Len(bl.inl.script.trynotes) -> BOOLEAN] :
          LET env == [shouldBail |-> sb, overrecursed |-> o, bailoutOK |-> ok]
          IN  bl' = [phase |-> "ion_handled", cx |-> bl.cx, inl |-> bl.inl, env |-> env,
                     st |-> HandleExceptionIon(HandlerState(bl.cx, InitialRfe),
                                               bl.inl, env)]
    /\ UNCHANGED <<threadVars, mk, sn>>

NextBaseline == BaselineHandle \/ IonHandle

SpecBaseline == InitBaseline /\ [][NextBaseline]_vars

\* Note i of the handled frame's script lies around the frame's pc and is not
\* deeper than the frame's stack.
NoteMatches(i) ==
    LET tn == bl.frame.script.trynotes[i]
    IN  /\ tn.start <= bl.frame.pc
        /\ bl.frame.pc < tn.start + tn.length
        /\ tn.stackDepth <= bl.frame.numValueSlots - bl.frame.script.nfixed

\* The first matching note, in table order, of one of the kinds; 0 if none.
FirstMatching(kinds) ==
    LET n == Len(bl.frame.script.trynotes)
        hits == {i \in 1..n : NoteMatches(i) /\ bl.frame.script.trynotes[i].kind \in kinds}
    IN  IF hits = {} THEN 0 ELSE CHOOSE i \in hits : \A j \in hits : i <= j

\* The outcome a CATCH note is said to produce.
CaughtBy(i) ==
    LET tn == bl.frame.script.trynotes[i]
    IN  /\ bl.st.warmUpResets = 1
        /\ bl.st.rfe.kind = "RESUME_CATCH"
        /\ bl.st.rfe.target = nativeCodeForPC(bl.frame.script, tn.start + tn.length)

HasEvent(name) == \E k \in 1..Len(bl.st.events) : bl.st.events[k][1] = name

ClosingHonoursNotes ==
    LET notes == bl.frame.script.trynotes
        fin == FirstMatching({"JSTRY_FINALLY"})
        scanned == IF fin = 0 THEN Len(notes) ELSE fin - 1
    IN  /\ bl.st.rfe.kind # "RESUME_CATCH"
        /\ ~HasEvent("onExceptionUnwind")
        /\ \A i \in 1..scanned :
              (NoteMatches(i) /\ notes[i].kind = "JSTRY_ITER") =>
                  \E k \in 1..Len(bl.st.events) :
                      bl.st.events[k] = <<"UnwindIteratorForException", i>>
        /\ fin # 0 =>
              /\ bl.st.rfe.kind = "RESUME_FINALLY"
              /\ bl.st.rfe.target =
                    nativeCodeForPC(bl.frame.script, notes[fin].start + notes[fin].length)
              /\ bl.st.rfe.exception = "closing"
              /\ bl.st.exception = "none"
        /\ fin = 0 => (bl.st.returnValue = "undefined" /\ HasEvent("DebugEpilogue"))

\* C9 as stated: without a FINALLY note that resumes, the exception is
\* cleared and a forced return is the outcome.
C9_ClosingForcesReturn ==
    (bl.phase = "handled" /\ bl.cx.exception = "closing") =>
        /\ ClosingHonoursNotes
        /\ FirstMatching({"JSTRY_FINALLY"}) = 0 =>
              /\ bl.st.exception = "none"
              /\ bl.st.rfe.kind = "RESUME_FORCED_RETURN"

\* C9: with the JS_GENERATOR_CLOSING magic value pending the handler never
\* hands back RESUME_CATCH and never calls the onExceptionUnwind hook; the
\* first matching FINALLY note resumes with the value stashed, the matching
\* ITER notes before it have their iterators closed; without such a FINALLY
\* note the exception is cleared, the return value set to undefined and
\* ForcedReturn run: the outcome is RESUME_FORCED_RETURN when DebugEpilogue
\* returns true, and when it returns false the handler records that the
\* epilogue ran and leaves the frame to the caller with RESUME_ENTRY_FRAME.
C9_ClosingAttemptsForcedReturn ==
    (bl.phase = "handled" /\ bl.cx.exception = "closing") =>
        /\ ClosingHonoursNotes
        /\ FirstMatching({"JSTRY_FINALLY"}) = 0 =>
              IF bl.env.epilogueOK
              THEN /\ bl.st.exception = "none"
                   /\ bl.st.rfe.kind = "RESUME_FORCED_RETURN"
                   /\ ~bl.st.calledDebugEpilogue
              ELSE /\ bl.st.rfe.kind = "RESUME_ENTRY_FRAME"
                   /\ bl.st.calledDebugEpilogue

\* A closing generator in a debuggee compartment: a CATCH note around the pc
\* was skipped, an iterator closed, and the forced return went through.
C9_Witness ==
    /\ bl.phase = "handled"
    /\ bl.cx.exception = "closing"
    /\ bl.cx.isDebuggee
    /\ Len(bl.frame.script.trynotes) = 2
    /\ bl.frame.script.trynotes[1] = TryNote("JSTRY_CATCH", 0, 3, 0)
    /\ bl.frame.script.trynotes[2] = TryNote("JSTRY_ITER", 1, 1, 1)
    /\ bl.frame.numValueSlots = 2
    /\ HasEvent("UnwindIteratorForException")
    /\ bl.st.returnValue = "undefined"
    /\ bl.st.rfe.kind = "RESUME_FORCED_RETURN"

\* --------------------------------------------------------- MarkIonJSFrame

\* General-purpose registers, stack slots of an Ion frame and actual
\* arguments at most.
MaxRegs == 2
MaxSlots == 2
MaxArgs == 1

Registers == 0..(MaxRegs - 1)
StackSlots == 1..MaxSlots

\* JitFrameLayout::slotRef and JitFrameLayout::argv: slots lie below the
\* frame header, the argument vector (thisv first) above it.
slotRef(fp, slot) == fp - slot
argv(fp) == fp + JitFrameLayout_Size

\* IonScript::frameSize(): a recompilation need not keep the frame size.
frameSize(ionScript) == MaxSlots + 1 + ((ionScript \div 50) % 2)

\* JitFrameIterator::spillBase for a frame whose ionScript() is given.
spillBase(fp, ionScript) == fp - frameSize(ionScript)

\* The elements of a set of numbers, largest first (the order of
\* GeneralRegisterBackwardIterator) and smallest first.
RECURSIVE Backward(_)
Backward(S) ==
    IF S = {} THEN << >>
    ELSE LET m == CHOOSE x \in S : \A y \in S : y <= x
         IN  <<m>> \o Backward(S \ {m})

RECURSIVE Forward(_)
Forward(S) ==
    IF S = {} THEN << >>
    ELSE LET m == CHOOSE x \in S : \A y \in S : x <= y
         IN  <<m>> \o Forward(S \ {m})

\* The walk of the machineState() loop: the spill location of register reg,
\* counting down from the spill base over all spilled registers.
RECURSIVE RegisterLocation(_, _, _)
RegisterLocation(regs, spill, reg) ==
    IF regs = << >> THEN NULL
    ELSE IF Head(regs) = reg THEN spill - 1
    ELSE RegisterLocation(Tail(regs), spill - 1, reg)

\* Where an LAllocation of a frame lies: ReadAllocation and WriteAllocation.
AllocationAddress(frame, ionScript, a) ==
    CASE a.kind = "reg" ->
            RegisterLocation(Backward(frame.safepoint.allGprSpills),
                             spillBase(frame.fp, ionScript), a.at)
      [] a.kind = "stack" -> slotRef(frame.fp, a.at)
      [] OTHER -> argv(frame.fp) + a.at

\* The low bits of the value tags, and Value::isMarkable.
JSVAL_TAG_INT32 == 1
JSVAL_TAG_STRING == 5
JSVAL_TAG_OBJECT == 7
isMarkable(v) == v.tag \in {JSVAL_TAG_STRING, JSVAL_TAG_OBJECT}

\* gc::MarkValueRoot on a Value assembled from a tag and a payload: a moving
\* collector replaces the pointer in the payload of a markable value.
MarkValueRoot(v, moves) ==
    IF moves /\ isMarkable(v) THEN [v EXCEPT !.payload = @ + 1] ELSE v

\* A spill walk that steps only over the registers it marks.
RECURSIVE MarkSpills_Packed(_, _, _)
MarkSpills_Packed(sp, regs, spill) ==
    IF regs = << >> THEN << >>
    ELSE IF Head(regs) \in sp.gcSpills
         THEN <<[name |-> "ion-gc-spill", addr |-> spill - 1]>>
                 \o MarkSpills_Packed(sp, Tail(regs), spill - 1)
         ELSE IF Head(regs) \in sp.valueSpills
         THEN <<[name |-> "ion-value-spill", addr |-> spill - 1]>>
                 \o MarkSpills_Packed(sp, Tail(regs), spill - 1)
         ELSE MarkSpills_Packed(sp, Tail(regs), spill)

\* The spill loop of MarkIonJSFrame over the registers regs, largest first,
\* with |spill| as it stands before the iteration.
RECURSIVE MarkSpills(_, _, _)
MarkSpills(sp, regs, spill) ==
    IF regs = << >> THEN << >>
    ELSE LET rest == MarkSpills(sp, Tail(regs), spill - 1)
         IN  IF Head(regs) \in sp.gcSpills
             THEN <<[name |-> "ion-gc-spill", addr |-> spill - 1]>> \o rest
             ELSE IF Head(regs) \in sp.valueSpills
             THEN <<[name |-> "ion-value-spill", addr |-> spill - 1]>> \o rest
             ELSE rest

\* A write-back that stores into the type half.
NunboxWriteBack_Type(frame, ionScript, entry, v) ==
    <<[addr |-> AllocationAddress(frame, ionScript, entry.type), value |-> v.payload]>>

\* WriteAllocation(frame, &payload, layout.s.payload.uintptr)
NunboxWriteBack(frame, ionScript, entry, v) ==
    <<[addr |-> AllocationAddress(frame, ionScript, entry.payload), value |-> v.payload]>>

\* The NUNBOX32 loop of MarkIonJSFrame from entry i on: the stores it makes.
RECURSIVE MarkNunbox(_, _, _, _, _)
MarkNunbox(frame, ionScript, sp, moves, i) ==
    IF i > Len(sp.nunbox) THEN << >>
    ELSE LET entry == sp.nunbox[i]
             layout == [tag |-> frame.mem[AllocationAddress(frame, ionScript, entry.type)],
                        payload |-> frame.mem[AllocationAddress(frame, ionScript,
                                                                entry.payload)]]
             v == MarkValueRoot(layout, moves)
             rest == MarkNunbox(frame, ionScript, sp, moves, i + 1)
         IN  IF v # layout THEN NunboxWriteBack(frame, ionScript, entry, v) \o rest
             ELSE rest

\* JitFrameIterator::ionScriptFromCalleeToken
ionScriptFromCalleeToken(execMode, frame) ==
    IF execMode = "SequentialExecution" THEN frame.scriptIon ELSE frame.parallelIonScript

\* ionScript->getSafepointIndex(returnAddress): the safepoint of the frame's
\* call site is found in the IonScript whose code holds the return address;
\* another IonScript has another table.
ForeignSafepoint ==
    [gcSlots |-> StackSlots, valueSlots |-> {}, allGprSpills |-> {},
     gcSpills |-> {}, valueSpills |-> {}, nunbox |-> << >>]

getSafepoint(frame, ionScript) ==
    IF containsReturnAddress(ionScript, frame.returnAddress)
    THEN frame.safepoint ELSE ForeignSafepoint

\* MarkIonJSFrame(trc, frame) with a collector that moves what it marks
\* (moves) or leaves it in place.
\*   roots: the locations handed to the tracer, in order
\*   traced: the IonScripts handed to IonScript::Trace
\*   safepointScript: the IonScript whose safepoint table was read
\*   writes: the stores made into the frame by the write-back of torn values
MarkIonJSFrame(frame, execMode, moves) ==
    LET it == [NoIter EXCEPT !.current = frame.fp, !.type = "JitFrame_IonJS",
                             !.returnAddressToFp = frame.returnAddress,
                             !.mode = execMode]
        inv == checkInvalidation(it, NoBailoutData, frame.scriptIon)
        ionScript == IF inv.invalidated THEN inv.ionScript
                     ELSE ionScriptFromCalleeToken(execMode, frame)
        sp == getSafepoint(frame, ionScript)
        args == [i \in 1..(frame.nargs + 1) |->
                    [name |-> "ion-argv",
                     addr |-> argv(frame.fp) + (i - 1) * SizeofValue]]
        gcSlots == [i \in 1..Cardinality(sp.gcSlots) |->
                       [name |-> "ion-gc-slot",
                        addr |-> slotRef(frame.fp, Forward(sp.gcSlots)[i])]]
        valueSlots == [i \in 1..Cardinality(sp.valueSlots) |->
                          [name |-> "ion-gc-slot",
                           addr |-> slotRef(frame.fp, Forward(sp.valueSlots)[i])]]
        spills == MarkSpills(sp, Backward(sp.allGprSpills), spillBase(frame.fp, ionScript))
        torn == [i \in 1..Len(sp.nunbox) |-> [name |-> "ion-torn-value", addr |-> NULL]]
    IN  [roots |-> <<[name |-> "jit-callee", addr |-> frame.fp]>>
                      \o args \o gcSlots \o valueSlots \o spills \o torn,
         traced |-> IF inv.invalidated THEN <<ionScript>> ELSE << >>,
         safepointScript |-> ionScript,
         writes |-> MarkNunbox(frame, ionScript, sp, moves, 1)]

\* ------------------------------------------- SnapshotIterator::traceAllocation

\* The RValueAllocations of a snapshot on the tag+payload encoding: reg and
\* stackOffset name the tag half, reg2 and stackOffset2 the payload half.
TraceAllocations ==
    {[mode |-> m, knownType |-> NULL, reg |-> NULL, reg2 |-> NULL,
      stackOffset |-> NULL, stackOffset2 |-> NULL, index |-> 0, index2 |-> 1,
      needSideEffect |-> FALSE] :
        m \in {"CONSTANT", "CST_UNDEFINED", "DOUBLE_REG", "RECOVER_INSTRUCTION",
               "RI_WITH_DEFAULT_CST"}}
    \cup {[mode |-> "TYPED_REG", knownType |-> t, reg |-> NULL, reg2 |-> r,
           stackOffset |-> NULL, stackOffset2 |-> NULL, index |-> 0, index2 |-> 1,
      needSideEffect |-> FALSE] :
             t \in {JSVAL_TAG_INT32, JSVAL_TAG_OBJECT}, r \in Registers}
    \cup {[mode |-> "TYPED_STACK", knownType |-> t, reg |-> NULL, reg2 |-> NULL,
           stackOffset |-> NULL, stackOffset2 |-> o, index |-> 0, index2 |-> 1,
      needSideEffect |-> FALSE] :
             t \in {JSVAL_TAG_INT32, JSVAL_TAG_OBJECT}, o \in StackSlots}
    \cup UNION {{[mode |-> "UNTYPED_REG_REG", knownType |-> NULL, reg |-> r,
                  reg2 |-> r2, stackOffset |-> NULL, stackOffset2 |-> NULL,
                  index |-> 0, index2 |-> 1,
      needSideEffect |-> FALSE] :
                    r2 \in Registers \ {r}} : r \in Registers}
    \cup {[mode |-> "UNTYPED_REG_STACK", knownType |-> NULL, reg |-> r, reg2 |-> NULL,
           stackOffset |-> NULL, stackOffset2 |-> o, index |-> 0, index2 |-> 1,
      needSideEffect |-> FALSE] :
             r \in Registers, o \in StackSlots}
    \cup {[mode |-> "UNTYPED_STACK_REG", knownType |-> NULL, reg |-> NULL, reg2 |-> r,
           stackOffset |-> o, stackOffset2 |-> NULL, index |-> 0, index2 |-> 1,
      needSideEffect |-> FALSE] :
             r \in Registers, o \in StackSlots}
    \cup UNION {{[mode |-> "UNTYPED_STACK_STACK", knownType |-> NULL, reg |-> NULL,
                  reg2 |-> NULL, stackOffset |-> o, stackOffset2 |-> o2,
                  index |-> 0, index2 |-> 1,
      needSideEffect |-> FALSE] :
                    o2 \in StackSlots \ {o}} : o \in StackSlots}

\* An allocationReadable for which whatever lives in a register or in a frame
\* slot is always readable.
allocationReadable_AnyMachine(it, alloc, rm) ==
    IF alloc.needSideEffect /\ rm # "RM_AlwaysDefault" /\ it.instructionResults = NULL
    THEN FALSE
    ELSE CASE alloc.mode = "RECOVER_INSTRUCTION" -> it.instructionResults # NULL
           [] alloc.mode = "RI_WITH_DEFAULT_CST" ->
                 rm = "RM_AlwaysDefault" \/ it.instructionResults # NULL
           [] OTHER -> TRUE

\* SnapshotIterator::allocationReadable(alloc, rm) of an iterator whose
\* machine state knows the registers machineRegs (and the float registers
\* when hasFpuReg) and whose instructionResults_ is it.instructionResults;
\* hasStack is true of every offset.
allocationReadable(it, alloc, rm) ==
    IF alloc.needSideEffect /\ rm # "RM_AlwaysDefault" /\ it.instructionResults = NULL
    THEN FALSE
    ELSE CASE alloc.mode = "DOUBLE_REG" -> it.hasFpuReg
           [] alloc.mode = "TYPED_REG" -> alloc.reg2 \in it.machineRegs
           [] alloc.mode = "UNTYPED_REG_REG" ->
                 alloc.reg \in it.machineRegs /\ alloc.reg2 \in it.machineRegs
           [] alloc.mode = "UNTYPED_REG_STACK" -> alloc.reg \in it.machineRegs
           [] alloc.mode = "UNTYPED_STACK_REG" -> alloc.reg2 \in it.machineRegs
           [] alloc.mode = "UNTYPED_STACK_STACK" -> TRUE
           [] alloc.mode = "RECOVER_INSTRUCTION" -> it.instructionResults # NULL
           [] alloc.mode = "RI_WITH_DEFAULT_CST" ->
                 rm = "RM_AlwaysDefault" \/ it.instructionResults # NULL
           [] OTHER -> TRUE

\* SnapshotIterator::allocationValue(alloc, RM_AlwaysDefault): registers and
\* frame slots hold the word it.word, the constant pool holds it.constants.
allocationValue(it, alloc) ==
    CASE alloc.mode = "CONSTANT" -> it.constants[alloc.index]
      [] alloc.mode = "CST_UNDEFINED" -> [tag |-> NULL, payload |-> 0]
      [] alloc.mode = "DOUBLE_REG" -> [tag |-> NULL, payload |-> it.word]
      [] alloc.mode \in {"TYPED_REG", "TYPED_STACK"} ->
            [tag |-> alloc.knownType, payload |-> it.word]
      [] alloc.mode \in {"UNTYPED_REG_REG", "UNTYPED_REG_STACK", "UNTYPED_STACK_REG",
                         "UNTYPED_STACK_STACK"} ->
            [tag |-> it.word, payload |-> it.word]
      [] OTHER -> it.constants[alloc.index2]

\* SnapshotIterator::writeAllocationValuePayload: the stores it makes, into a
\* register of the machine state, a frame slot or the constant pool.
writeAllocationValuePayload(alloc, v) ==
    CASE alloc.mode = "CONSTANT" ->
            [crashed |-> FALSE,
             writes |-> <<[kind |-> "constant", at |-> alloc.index, value |-> v]>>]
      [] alloc.mode \in {"CST_UNDEFINED", "DOUBLE_REG"} ->
            [crashed |-> TRUE, writes |-> << >>]
      [] alloc.mode = "TYPED_REG" ->
            [crashed |-> FALSE,
             writes |-> <<[kind |-> "reg", at |-> alloc.reg2, value |-> v.payload]>>]
      [] alloc.mode = "TYPED_STACK" ->
            IF alloc.knownType \in {JSVAL_TAG_STRING, JSVAL_TAG_OBJECT}
            THEN [crashed |-> FALSE,
                  writes |-> <<[kind |-> "stack", at |-> alloc.stackOffset2,
                                value |-> v.payload]>>]
            ELSE [crashed |-> TRUE, writes |-> << >>]
      [] alloc.mode \in {"UNTYPED_REG_REG", "UNTYPED_STACK_REG"} ->
            [crashed |-> FALSE,
             writes |-> <<[kind |-> "reg", at |-> alloc.reg2, value |-> v.payload]>>]
      [] alloc.mode \in {"UNTYPED_REG_STACK", "UNTYPED_STACK_STACK"} ->
            [crashed |-> FALSE,
             writes |-> <<[kind |-> "stack", at |-> alloc.stackOffset2,
                           value |-> v.payload]>>]
      [] alloc.mode = "RECOVER_INSTRUCTION" -> [crashed |-> TRUE, writes |-> << >>]
      [] OTHER ->
            [crashed |-> FALSE,
             writes |-> <<[kind |-> "constant", at |-> alloc.index2, value |-> v]>>]

\* SnapshotIterator::traceAllocation for the allocation alloc.
traceAllocation(it, alloc, moves) ==
    IF ~allocationReadable(it, alloc, "RM_AlwaysDefault")
    THEN [read |-> FALSE, marked |-> FALSE, crashed |-> FALSE, writes |-> << >>]
    ELSE LET copy == allocationValue(it, alloc)
             v == MarkValueRoot(copy, moves)
         IN  IF ~isMarkable(copy)
             THEN [read |-> TRUE, marked |-> FALSE, crashed |-> FALSE, writes |-> << >>]
             ELSE IF v # copy
             THEN LET w == writeAllocationValuePayload(alloc, v)
                  IN  [read |-> TRUE, marked |-> TRUE, crashed |-> w.crashed,
                       writes |-> w.writes]
             ELSE [read |-> TRUE, marked |-> TRUE, crashed |-> FALSE, writes |-> << >>]

\* ------------------------------------------------- BaselineScript PC mapping

\* Most bytecode ops of a baseline script, and the number of ops between two
\* entries of the PC-mapping index ("every X ops").
MaxOps == 4
PCMappingInterval == 2

\* The PC-mapping entries the compiler records, one per bytecode op in order:
\* pcDelta and nativeDelta are the distances of the op from the op before it
\* in bytecode and in native code (the first op lies at bytecode offset 0).
RECURSIVE OffsetsOf(_, _)
\* Where op i lies: its bytecode offset, its native offset and the offset of
\* its data in the compact buffer.  An entry with a native delta takes two
\* bytes of the buffer, one without takes one.
OffsetsOf(entries, i) ==
    IF i = 0 THEN [pcOffset |-> 0, nativeOffset |-> 0, bufferOffset |-> 1, size |-> 0]
    ELSE LET before == OffsetsOf(entries, i - 1)
         IN  [pcOffset |-> before.pcOffset + entries[i].pcDelta,
              nativeOffset |-> before.nativeOffset + entries[i].nativeDelta,
              bufferOffset |-> before.bufferOffset + before.size,
              size |-> IF entries[i].nativeDelta = 0 THEN 1 ELSE 2]

RECURSIVE PCMappingBuffer(_, _)
\* The compact buffer of the entries from op i on: a byte with the bytecode
\* delta, flagged with 128 when a native delta follows it.
PCMappingBuffer(entries, i) ==
    IF i > Len(entries) THEN << >>
    ELSE (IF entries[i].nativeDelta = 0 THEN <<entries[i].pcDelta>>
          ELSE <<128 + entries[i].pcDelta, entries[i].nativeDelta>>)
         \o PCMappingBuffer(entries, i + 1)

\* An index whose bufferOffset counts entries, not bytes.
PCMappingIndex_EntryOffsets(entries) ==
    [j \in 1..((Len(entries) + PCMappingInterval - 1) \div PCMappingInterval) |->
        LET i == (j - 1) * PCMappingInterval + 1
        IN  [pcOffset |-> OffsetsOf(entries, i).pcOffset,
             nativeOffset |-> OffsetsOf(entries, i).nativeOffset,
             bufferOffset |-> i]]

\* The PCMappingIndexEntry table: one entry every PCMappingInterval ops, with
\* the op's bytecode offset, its native offset and the offset in the compact
\* buffer where the data for that bytecode offset starts.
PCMappingIndex(entries) ==
    [j \in 1..((Len(entries) + PCMappingInterval - 1) \div PCMappingInterval) |->
        LET at == OffsetsOf(entries, (j - 1) * PCMappingInterval + 1)
        IN  [pcOffset |-> at.pcOffset, nativeOffset |-> at.nativeOffset,
             bufferOffset |-> at.bufferOffset]]

RECURSIVE DecodeFrom(_, _, _, _, _, _, _)
\* The forward linear decode of the compact buffer from offset off, standing
\* at bytecode offset curPc and native offset curNative, until the op at
\* bytecode offset target is found.  indexed: the data at off belongs to an
\* index entry, whose offsets are taken from the index and not added again.
\* decoded counts the entries read; native is -1 when the buffer ends first.
DecodeFrom(buffer, off, curPc, curNative, target, indexed, decoded) ==
    IF off > Len(buffer) THEN [native |-> -1, decoded |-> decoded]
    ELSE LET flagged == buffer[off] >= 128
             thisPc == IF indexed THEN curPc ELSE curPc + (buffer[off] % 128)
             thisNative == IF indexed \/ ~flagged THEN curNative
                           ELSE curNative + buffer[off + 1]
         IN  IF thisPc = target
             THEN [native |-> thisNative, decoded |-> decoded + 1]
             ELSE DecodeFrom(buffer, off + (IF flagged THEN 2 ELSE 1), thisPc,
                             thisNative, target, FALSE, decoded + 1)

RECURSIVE IndexSearch(_, _, _, _)
\* Binary search of the index for the last entry at or before pcOffset.
IndexSearch(index, pcOffset, lo, hi) ==
    IF lo >= hi THEN lo
    ELSE LET mid == (lo + hi + 1) \div 2
         IN  IF index[mid].pcOffset <= pcOffset
             THEN IndexSearch(index, pcOffset, mid, hi)
             ELSE IndexSearch(index, pcOffset, lo, mid - 1)

\* BaselineScript::maybeNativeCodeForPC: the native offset for the op at
\* pcOffset, by binary search on the index and a linear decode from there.
maybeNativeCodeForPC(buffer, index, pcOffset) ==
    LET e == index[IndexSearch(index, pcOffset, 1, Len(index))]
    IN  DecodeFrom(buffer, e.bufferOffset, e.pcOffset, e.nativeOffset, pcOffset, TRUE, 0)

\* ----------------------------------------------------------- MarkBailoutFrame

\* Most recover instructions and resume points of the snapshot of a frame
\* under bailout, and most allocations they have together.
MaxSnapshotInstructions == 2
MaxAllocations == 2

RECURSIVE AllocationsIn(_, _)
\* The allocations of the first n instructions of a snapshot, counted.
AllocationsIn(instrs, n) ==
    IF n = 0 THEN 0 ELSE Len(instrs[n].allocations) + AllocationsIn(instrs, n - 1)

\* A loop that stops after the allocations of the first instruction.
MarkBailoutFrame_FirstInstruction(it, nargs, instrs, ins, idx, moves) ==
    IF idx = 1 /\ ins = 1
    THEN [roots |-> <<"jit-callee">> \o [i \in 1..(nargs + 1) |-> "ion-argv"],
          log |-> [i \in 1..Len(instrs[1].allocations) |->
                      [ins |-> 1, idx |-> i,
                       out |-> traceAllocation(it, instrs[1].allocations[i], moves)]]]
    ELSE [roots |-> << >>, log |-> << >>]

RECURSIVE MarkBailoutFrame(_, _, _, _, _, _)
\* MarkBailoutFrame(trc, frame) from allocation idx of instruction ins of the
\* snapshot instrs (the call starts at 1, 1, where the callee token and the
\* actual arguments are marked first).
\*   roots: the names of the roots marked outside the snapshot
\*   log: for each traceAllocation call, in order, the instruction and the
\*        allocation it read and what the call did
MarkBailoutFrame(it, nargs, instrs, ins, idx, moves) ==
    LET roots == IF ins = 1 /\ idx = 1
                 THEN <<"jit-callee">> \o [i \in 1..(nargs + 1) |-> "ion-argv"]
                 ELSE << >>
    IN  IF idx <= Len(instrs[ins].allocations)
        THEN LET rest == MarkBailoutFrame(it, nargs, instrs, ins, idx + 1, moves)
             IN  [roots |-> roots,
                  log |-> <<[ins |-> ins, idx |-> idx,
                             out |-> traceAllocation(it, instrs[ins].allocations[idx],
                                                     moves)]>> \o rest.log]
        ELSE IF ins < Len(instrs)
        THEN [roots |-> roots,
              log |-> MarkBailoutFrame(it, nargs, instrs, ins + 1, 1, moves).log]
        ELSE [roots |-> roots, log |-> << >>]

\* ----------------------------------------------------------- MarkJitExitFrame

\* An exit frame as MarkJitExitFrame reads it: layout is the exit-frame layout
\* the footer's token names, argc and isMethodFrame are fields of the native
\* and DOM layouts, function is footer->function(): the VM function with the
\* root type and the stored word of each explicit argument and its
\* out-parameter, a null pointer being the record whose outParam is "nullptr".  The routine's report is the list of roots handed to the
\* tracer, each with its name and the number of slots, and whether the footer
\* was read at all.  MarkJitExitFrameCopiedArguments marks nothing outside
\* JS_CODEGEN_MIPS.

\* A routine without the early return for fake exit frames: it reads the
\* footer of every exit frame and marks the code pointer found there.
MarkJitExitFrame_NoFakeCheck(frames, it, exit) ==
    [readFooter |-> TRUE, crashed |-> FALSE,
     roots |-> IF exit.layout = "Bare" THEN << >> ELSE <<<<"ion-exit-code", 1>>>>]

MarkJitExitFrame(frames, it, exit) ==
    LET f == exit.function
        Marked(a) ==
            /\ a.root # "RootNone"
            /\ a.root = "RootObject" => a.word # 0
        Root(a) == <<"ion-vm-args", 1>>
        args == SelectSeq(f.args, Marked)
        out == IF f.outParam # "Type_Handle" THEN << >>
               ELSE IF f.outParamRootType = "RootValue" THEN <<<<"ion-vm-outvp", 1>>>>
               ELSE <<<<"ion-vm-out", 1>>>>
        report(roots) == [readFooter |-> TRUE, crashed |-> FALSE, roots |-> roots]
    IN  IF isFakeExitFrame(frames, it)
        THEN [readFooter |-> FALSE, crashed |-> FALSE, roots |-> << >>]
        ELSE CASE exit.layout = "Native" ->
                    report(<<<<"ion-native-args", exit.argc + 2>>>>)
               [] exit.layout = "IonOOLNative" ->
                    report(<<<<"ion-ool-native-code", 1>>, <<"iol-ool-native-vp", 1>>,
                             <<"ion-ool-native-thisargs", exit.argc + 1>>>>)
               [] exit.layout = "IonOOLPropertyOp" ->
                    report(<<<<"ion-ool-property-op-code", 1>>,
                             <<"ion-ool-property-op-vp", 1>>,
                             <<"ion-ool-property-op-id", 1>>,
                             <<"ion-ool-property-op-obj", 1>>>>)
               [] exit.layout = "IonOOLProxy" ->
                    report(<<<<"ion-ool-proxy-code", 1>>, <<"ion-ool-proxy-vp", 1>>,
                             <<"ion-ool-proxy-id", 1>>, <<"ion-ool-proxy-proxy", 1>>,
                             <<"ion-ool-proxy-receiver", 1>>>>)
               [] exit.layout = "IonDOM" ->
                    report(<<<<"ion-dom-args", 1>>,
                             <<"ion-dom-args",
                               IF exit.isMethodFrame THEN exit.argc + 2 ELSE 1>>>>)
               [] exit.layout = "Bare" -> report(<< >>)
               [] OTHER ->
                    IF f.outParam = "nullptr" THEN report(<<<<"ion-exit-code", 1>>>>)
                    ELSE IF f.outParam = "Type_Handle" /\ f.outParamRootType = "RootNone"
                    THEN [readFooter |-> TRUE, crashed |-> TRUE,
                          roots |-> <<<<"ion-exit-code", 1>>>>
                                      \o [i \in 1..Len(args) |-> Root(args[i])]]
                    ELSE report(<<<<"ion-exit-code", 1>>>>
                                  \o [i \in 1..Len(args) |-> Root(args[i])] \o out)

\* -------------------------------------------------------- baselineScriptAndPc

\* The return addresses a baseline script's prologue leaves in a frame.
prologueEntryAddr == 10
postDebugPrologueAddr == 11

\* What baselineScriptAndPc reads: overridePc, the frame's unwound-scope
\* override pc; debugModeOSRPc, the pc stashed in the frame's debug mode OSR
\* info (NoPc in either: the pointer is null); icEntryPc, the pc of the entry
\* maybeICEntryFromReturnAddress returns for the return address (NoPc: no
\* entry); mappedPc, the answer of pcForReturnAddress.  script->code() is
\* offset 0.  The result names the source that gave the pc and lists the
\* sources consulted, in order.  Every caller passes a pcRes.

\* A routine that looks for an IC entry before it compares the return address
\* with the prologue addresses.
baselineScriptAndPc_ICFirst(it, frame, baselineScript) ==
    LET retAddr == it.returnAddressToFp
    IN  IF frame.overridePc # NoPc
        THEN [pc |-> frame.overridePc, source |-> "overridePc",
              consulted |-> <<"overridePc">>]
        ELSE IF frame.debugModeOSRPc # NoPc
        THEN [pc |-> frame.debugModeOSRPc, source |-> "debugModeOSRInfo",
              consulted |-> <<"overridePc", "debugModeOSRInfo">>]
        ELSE IF baselineScript.icEntryPc # NoPc
        THEN [pc |-> baselineScript.icEntryPc, source |-> "icEntry",
              consulted |-> <<"overridePc", "debugModeOSRInfo", "icEntry">>]
        ELSE IF retAddr \in {prologueEntryAddr, postDebugPrologueAddr}
        THEN [pc |-> 0, source |-> "prologue",
              consulted |-> <<"overridePc", "debugModeOSRInfo", "icEntry", "prologue">>]
        ELSE [pc |-> baselineScript.mappedPc, source |-> "pcMapping",
              consulted |-> <<"overridePc", "debugModeOSRInfo", "icEntry", "prologue",
                              "pcMapping">>]

baselineScriptAndPc(it, frame, baselineScript) ==
    LET retAddr == it.returnAddressToFp
    IN  IF frame.overridePc # NoPc
        THEN [pc |-> frame.overridePc, source |-> "overridePc",
              consulted |-> <<"overridePc">>]
        ELSE IF frame.debugModeOSRPc # NoPc
        THEN [pc |-> frame.debugModeOSRPc, source |-> "debugModeOSRInfo",
              consulted |-> <<"overridePc", "debugModeOSRInfo">>]
        ELSE IF retAddr = prologueEntryAddr \/ retAddr = postDebugPrologueAddr
        THEN [pc |-> 0, source |-> "prologue",
              consulted |-> <<"overridePc", "debugModeOSRInfo", "prologue">>]
        ELSE IF baselineScript.icEntryPc # NoPc
        THEN [pc |-> baselineScript.icEntryPc, source |-> "icEntry",
              consulted |-> <<"overridePc", "debugModeOSRInfo", "prologue", "icEntry">>]
        ELSE [pc |-> baselineScript.mappedPc, source |-> "pcMapping",
              consulted |-> <<"overridePc", "debugModeOSRInfo", "prologue", "icEntry",
                              "pcMapping">>]

\* ------------------------------------------------ Marking one optimized frame

\* The IonScript whose code the marked frame runs, and the frame's addresses.
OwnIonScript == IonScriptOf(ActivationBase(1), 1)
FrameAddrs(fp) == (fp - MaxSlots - MaxRegs - 2)..(fp + JitFrameLayout_Size + 2 * MaxArgs + 2)

\* The safepoints of a call site.  With the tag+payload encoding (nunbox32) a
\* safepoint has no value registers and may list one torn value, whose halves
\* lie in spilled registers that are no GC pointers, in stack slots listed
\* neither as GC slot nor as value slot, or in the argument vector; with the
\* one-word encoding it lists no torn value.
SlotClasses ==
    {[gcSlots |-> g, valueSlots |-> v] : g \in SUBSET StackSlots, v \in SUBSET StackSlots}

SpillClasses(nunbox32) ==
    {[allGprSpills |-> a, gcSpills |-> g, valueSpills |-> v] :
        a \in SUBSET Registers, g \in SUBSET Registers, v \in SUBSET Registers}

TornLocations(sl, sp) ==
    {[kind |-> "reg", at |-> r] : r \in sp.allGprSpills \ sp.gcSpills}
    \cup {[kind |-> "stack", at |-> o] : o \in StackSlots \ (sl.gcSlots \cup sl.valueSlots)}
    \cup {[kind |-> "arg", at |-> i] : i \in {0, 1}}

NunboxTables(nunbox32, sl, sp) ==
    IF ~nunbox32 THEN {<< >>}
    ELSE {<< >>} \cup
         UNION {{<<[type |-> t, payload |-> q]>> :
                    q \in TornLocations(sl, sp) \ {t}} :
                t \in {l \in TornLocations(sl, sp) : l.kind # "arg"}}

Safepoints ==
    UNION {UNION {UNION {
        {[gcSlots |-> sl.gcSlots, valueSlots |-> sl.valueSlots,
          allGprSpills |-> sp.allGprSpills, gcSpills |-> sp.gcSpills,
          valueSpills |-> sp.valueSpills, nunbox |-> nb] :
            nb \in NunboxTables(nunbox32, sl, sp)} :
          sp \in {c \in SpillClasses(nunbox32) :
                    /\ c.gcSpills \subseteq c.allGprSpills
                    /\ c.valueSpills \subseteq c.allGprSpills
                    /\ c.gcSpills \cap c.valueSpills = {}
                    /\ nunbox32 => c.valueSpills = {}}} :
        sl \in {c \in SlotClasses : c.gcSlots \cap c.valueSlots = {}}} :
      nunbox32 \in BOOLEAN}

\* The Ion frames handed to MarkIonJSFrame.  A frame run sequentially runs
\* the code of OwnIonScript and its script holds that IonScript, a
\* recompiled one or none; a frame run in parallel runs the script's
\* parallel IonScript, and its script holds a sequential IonScript or none.
MarkedFrames ==
    {[fp |-> ActivationBase(1), returnAddress |-> IonCodeBase(OwnIonScript) + 1,
      nargs |-> n, execMode |-> m[1], scriptIon |-> m[2], parallelIonScript |-> m[3],
      safepoint |-> sp, mem |-> [a \in FrameAddrs(ActivationBase(1)) |-> w]] :
        n \in 0..MaxArgs,
        m \in {<<"SequentialExecution", i, NULL>> : i \in ScriptIonChoices(OwnIonScript)}
              \cup {<<"ParallelExecution", i, OwnIonScript>> :
                       i \in {NULL, RecompiledIonScript(OwnIonScript)}},
        sp \in Safepoints,
        w \in {JSVAL_TAG_INT32, JSVAL_TAG_OBJECT}}

\* The SnapshotIterators of a frame under bailout, each with the allocation
\* it reads next.
TracedAllocations ==
    {[alloc |-> a,
      it |-> [machineRegs |-> regs, hasFpuReg |-> TRUE, instructionResults |-> NULL,
              word |-> w,
              constants |-> [i \in {0, 1} |-> [tag |-> w, payload |-> 3]]]] :
        a \in TraceAllocations, regs \in SUBSET Registers,
        w \in {JSVAL_TAG_INT32, JSVAL_TAG_OBJECT}}

\* ----------------------------------------------- UpdateJitActivationsForMinorGC

\* The Ion frames a minor GC meets: the frames handed to MarkIonJSFrame, whose
\* safepoint lists in addition the spilled registers and the stack slots that
\* hold a slots or elements pointer, which are no GC pointers and no values.
MinorGCFrames ==
    UNION {{[f EXCEPT !.safepoint =
                [gcSlots |-> @.gcSlots, valueSlots |-> @.valueSlots,
                 allGprSpills |-> @.allGprSpills, gcSpills |-> @.gcSpills,
                 valueSpills |-> @.valueSpills, nunbox |-> @.nunbox,
                 slotsOrElementsSpills |-> r, slotsOrElementsSlots |-> o]] :
               r \in SUBSET (f.safepoint.allGprSpills
                                \ (f.safepoint.gcSpills \cup f.safepoint.valueSpills)),
               o \in SUBSET (StackSlots
                                \ (f.safepoint.gcSlots \cup f.safepoint.valueSlots))} :
           f \in {g \in MarkedFrames :
                     g.nargs = 0 /\ g.mem[g.fp] = JSVAL_TAG_INT32}}

\* A spill loop that forwards every spilled register.
RECURSIVE ForwardSpills_All(_, _, _)
ForwardSpills_All(slotsRegs, regs, spill) ==
    IF regs = << >> THEN << >>
    ELSE <<spill - 1>> \o ForwardSpills_All(slotsRegs, Tail(regs), spill - 1)

\* The spill loop of UpdateIonJSFrameForMinorGC over the registers regs,
\* largest first, with |spill| as it stands before the iteration: the
\* locations handed to forwardBufferPointer.
RECURSIVE ForwardSpills(_, _, _)
ForwardSpills(slotsRegs, regs, spill) ==
    IF regs = << >> THEN << >>
    ELSE LET rest == ForwardSpills(slotsRegs, Tail(regs), spill - 1)
         IN  IF Head(regs) \in slotsRegs THEN <<spill - 1>> \o rest ELSE rest

\* The reads of one section of the safepoint stream until the getter answers
\* false.
ReadSection(name, items) == [i \in 1..Len(items) |-> [section |-> name, item |-> items[i]]]

\* UpdateIonJSFrameForMinorGC<T>(trc, frame).
\*   forwarded: the locations handed to forwardBufferPointer, in order
\*   consumed: the entries read from the safepoint stream, in order
\*   roots: the locations handed to the tracer for marking
\*   safepointScript: the IonScript whose safepoint table was read
UpdateIonJSFrameForMinorGC(frame, execMode) ==
    LET it == [NoIter EXCEPT !.current = frame.fp, !.type = "JitFrame_IonJS",
                             !.returnAddressToFp = frame.returnAddress,
                             !.mode = execMode]
        inv == checkInvalidation(it, NoBailoutData, frame.scriptIon)
        ionScript == IF inv.invalidated THEN inv.ionScript
                     ELSE ionScriptFromCalleeToken(execMode, frame)
        found == getSafepoint(frame, ionScript)
        sp == IF found = frame.safepoint THEN found
              ELSE [gcSlots |-> found.gcSlots, valueSlots |-> found.valueSlots,
                    allGprSpills |-> found.allGprSpills, gcSpills |-> found.gcSpills,
                    valueSpills |-> found.valueSpills, nunbox |-> found.nunbox,
                    slotsOrElementsSpills |-> {}, slotsOrElementsSlots |-> {}]
        slots == Forward(sp.slotsOrElementsSlots)
    IN  [forwarded |-> ForwardSpills(sp.slotsOrElementsSpills,
                                     Backward(sp.allGprSpills),
                                     spillBase(frame.fp, ionScript))
                          \o [i \in 1..Len(slots) |-> slotRef(frame.fp, slots[i])],
         consumed |-> ReadSection("gc", Forward(sp.gcSlots))
                         \o ReadSection("value", Forward(sp.valueSlots))
                         \o ReadSection("nunbox", sp.nunbox)
                         \o ReadSection("slotsOrElements", slots),
         roots |-> << >>,
         safepointScript |-> ionScript]

\* The body of the loops of UpdateJitActivationsForMinorGC<T>(ptd, trc) for an
\* iterator of the given type that stands on frame.
UpdateJitActivationsForMinorGC(type, frame) ==
    IF type = "JitFrame_IonJS"
    THEN UpdateIonJSFrameForMinorGC(frame, frame.execMode)
    ELSE [forwarded |-> << >>, consumed |-> << >>, roots |-> << >>,
          safepointScript |-> NULL]

\* -------------------------------------------------------- PCMappingSlotInfo

\* enum SlotLocation
SlotInR0 == 0
SlotInR1 == 1
SlotIgnore == 3

\* a | b and a & b on unsigned words, bit by bit.
RECURSIVE BitOr(_, _)
BitOr(a, b) ==
    IF a = 0 THEN b
    ELSE IF b = 0 THEN a
    ELSE (IF (a % 2) + (b % 2) > 0 THEN 1 ELSE 0) + 2 * BitOr(a \div 2, b \div 2)

RECURSIVE BitAnd(_, _)
BitAnd(a, b) ==
    IF a = 0 \/ b = 0 THEN 0
    ELSE (IF (a % 2) + (b % 2) = 2 THEN 1 ELSE 0) + 2 * BitAnd(a \div 2, b \div 2)

\* a << n and a >> n
ShiftLeft(a, n) == a * (2 ^ n)
ShiftRight(a, n) == a \div (2 ^ n)

\* explicit PCMappingSlotInfo(uint8_t slotInfo)
PCMappingSlotInfo(slotInfo) == [slotInfo_ |-> slotInfo % 256]

ValidSlotLocation(loc) == loc = SlotInR0 \/ loc = SlotInR1 \/ loc = SlotIgnore

\* MakeSlotInfo()
MakeSlotInfo0 == PCMappingSlotInfo(0)

\* MakeSlotInfo(topSlotLoc)
MakeSlotInfo1(topSlotLoc) == PCMappingSlotInfo(BitOr(1, ShiftLeft(topSlotLoc, 2)))

\* A two-slot encoding laid out as the comment on the encoding says, with the
\* next slot's location in bits 3 and 4.
MakeSlotInfo2_Bits3And4(topSlotLoc, nextSlotLoc) ==
    PCMappingSlotInfo(BitOr(BitOr(2, ShiftLeft(topSlotLoc, 2)),
                            ShiftLeft(nextSlotLoc, 3)))

\* MakeSlotInfo(topSlotLoc, nextSlotLoc)
MakeSlotInfo2(topSlotLoc, nextSlotLoc) ==
    PCMappingSlotInfo(BitOr(BitOr(2, ShiftLeft(topSlotLoc, 2)),
                            ShiftLeft(nextSlotLoc, 4)))

numUnsynced(info) == BitAnd(info.slotInfo_, 3)
topSlotLocation(info) == BitAnd(ShiftRight(info.slotInfo_, 2), 3)
nextSlotLocation(info) == BitAnd(ShiftRight(info.slotInfo_, 4), 3)
toByte(info) == info.slotInfo_

\* The ways a PCMappingSlotInfo is built: from no, one or two slot locations,
\* or from a byte read back from the PC-mapping buffer.
SlotInfoJobs ==
    {[args |-> a] : a \in {<< >>} \cup {<<t>> : t \in {SlotInR0, SlotInR1, SlotIgnore}}
                          \cup {<<t, n>> : t, n \in {SlotInR0, SlotInR1, SlotIgnore}}}
    \cup {[byte |-> x] : x \in 0..255}

\* ------------------------------------------------------ InlineFrameIterator

\* Most call sites between the logical frames of one Ion frame.
MaxCallSites == 2

\* numActualArgs_ before the loop of findNextFrame has deduced a count.
BadBad == 12237229

\* The bytecode at an inlined call site: its op and what GET_ARGC reads at it
\* (for a property access, whatever the operand bytes hold).
CallSites ==
    {[op |-> "JSOP_CALL", argc |-> a] : a \in {0, 2}}
    \cup {[op |-> "JSOP_FUNCALL", argc |-> a] : a \in {1, 2}}
    \cup {[op |-> "JSOP_FUNAPPLY", argc |-> 2],
          [op |-> "JSOP_GETPROP", argc |-> 2],
          [op |-> "JSOP_SETPROP", argc |-> 0]}

\* A deduction that forgets the enclosing count at JSOP_FUNAPPLY.
ArgsAtSite_Reset(site, numActualArgs) ==
    IF site.op = "JSOP_FUNAPPLY" THEN BadBad
    ELSE IF site.op = "JSOP_FUNCALL" THEN site.argc - 1
    ELSE IF site.op = "JSOP_GETPROP" THEN 0
    ELSE IF site.op = "JSOP_SETPROP" THEN 1
    ELSE site.argc

\* "Recover the number of actual arguments from the script" in the loop of
\* findNextFrame: numActualArgs is the member's value when the iteration
\* starts.
ArgsAtSite(site, numActualArgs) ==
    LET fromArgc == IF site.op # "JSOP_FUNAPPLY" THEN site.argc ELSE numActualArgs
    IN  IF site.op = "JSOP_FUNCALL" THEN site.argc - 1
        ELSE IF site.op = "JSOP_GETPROP" THEN 0
        ELSE IF site.op = "JSOP_SETPROP" THEN 1
        ELSE fromArgc

\* The loop of findNextFrame over the call sites 1..iterations, the outermost
\* first, as far as numActualArgs_ goes; i is the iteration, numActualArgs the
\* member's value.  crashed is the MOZ_CRASH of an undeduced count.
RECURSIVE FindArgs(_, _, _, _)
FindArgs(sites, iterations, i, numActualArgs) ==
    IF i > iterations
    THEN [numActualArgs |-> numActualArgs, crashed |-> FALSE, at |-> i]
    ELSE LET n == ArgsAtSite(sites[i], numActualArgs)
         IN  IF n = BadBad
             THEN [numActualArgs |-> n, crashed |-> TRUE, at |-> i]
             ELSE FindArgs(sites, iterations, i + 1, n)

\* findNextFrame on an InlineFrameIterator it (frameCount, framesRead) of an
\* Ion frame whose logical frames are separated by the call sites sites.
InlineFindNextFrame(it, sites) ==
    LET f == findNextFrame(it, Len(sites) + 1)
        a == FindArgs(sites, f.depth - 1, 1, BadBad)
    IN  IF a.crashed
        THEN [frameCount |-> it.frameCount, framesRead |-> it.framesRead,
              depth |-> a.at, numActualArgs |-> a.numActualArgs, crashed |-> TRUE]
        ELSE [frameCount |-> f.frameCount, framesRead |-> f.framesRead,
              depth |-> f.depth, numActualArgs |-> a.numActualArgs, crashed |-> FALSE]

InitMark ==
    /\ ThreadAtRest
    /\ bl = NoBl
    /\ sn = NoSn
    /\ mk \in {[phase |-> "frame", frame |-> f] : f \in MarkedFrames}
              \cup {[phase |-> "allocation", job |-> j] : j \in TracedAllocations}
              \cup {[phase |-> "iterator",
                     it |-> [NoIter EXCEPT !.current = ActivationBase(1), !.type = t,
                                !.returnAddressToFp =
                                    IF t = "JitFrame_Bailout" THEN NULL
                                    ELSE IonCodeBase(OwnIonScript) + 1,
                                !.mode = m],
                     bailoutData |-> IF t = "JitFrame_Bailout"
                                     THEN [active |-> TRUE, fp |-> ActivationBase(1),
                                           topFrameSize |-> 0, ionScript |-> OwnIonScript]
                                     ELSE NoBailoutData,
                     scriptIon |-> i] :
                       t \in {"JitFrame_IonJS", "JitFrame_Bailout"},
                       m \in {"SequentialExecution", "ParallelExecution"},
                       i \in ScriptIonChoices(OwnIonScript)}
              \cup {[phase |-> "exit",
                     frames |-> <<[kind |-> "JitFrame_Exit", addr |-> ActivationBase(1),
                                   prevType |-> EnsureExitFrameTag(p), prevSize |-> 0,
                                   retAddr |-> 501]>>,
                     it |-> [NoIter EXCEPT !.current = ActivationBase(1),
                                           !.type = "JitFrame_Exit"],
                     exit |-> [layout |-> l, argc |-> n, isMethodFrame |-> d,
                               function |-> f]] :
                       p \in {"JitFrame_IonJS", "JitFrame_BaselineStub",
                              "JitFrame_BaselineJS", "JitFrame_Rectifier"}
                             \cup UnwoundTypes,
                       l \in {"Native", "IonOOLNative", "IonOOLPropertyOp",
                              "IonOOLProxy", "IonDOM", "Bare", "VMWrapper"},
                       n \in 0..MaxArgs, d \in BOOLEAN,
                       f \in {[args |-> << >>, outParam |-> "nullptr",
                                outParamRootType |-> "RootNone"]} \cup
                             [args : UNION {[1..k -> [root : {"RootNone", "RootObject",
                                                              "RootValue"},
                                                      word : 0..1]] : k \in 0..MaxArgs},
                              outParam : {"Type_Void", "Type_Handle"},
                              outParamRootType : {"RootNone", "RootObject",
                                                  "RootValue"}]}
              \cup {[phase |-> "inline_ready", sites |-> t] :
                       t \in UNION {[1..k -> CallSites] : k \in 0..MaxCallSites}}
              \cup {[phase |-> "slot_info", job |-> j] : j \in SlotInfoJobs}
              \cup {[phase |-> "minor_gc", frame |-> f] : f \in MinorGCFrames}
              \cup {[phase |-> "readable",
                     alloc |-> [a EXCEPT !.needSideEffect = e],
                     it |-> [machineRegs |-> regs, hasFpuReg |-> f,
                             instructionResults |-> r],
                     rm |-> m] :
                       a \in TraceAllocations, e \in BOOLEAN,
                       regs \in SUBSET Registers, f \in BOOLEAN,
                       r \in {NULL, ActivationBase(1)},
                       m \in {"RM_Normal", "RM_AlwaysDefault"}}
              \cup {[phase |-> "bailout",
                     it |-> [machineRegs |-> Registers, hasFpuReg |-> TRUE,
                             instructionResults |-> NULL, word |-> 3,
                             constants |-> [i \in {0, 1} |->
                                               [tag |-> JSVAL_TAG_OBJECT, payload |-> 3]]],
                     nargs |-> n, instrs |-> t] :
                       n \in 0..MaxArgs,
                       t \in UNION {{u \in [1..k ->
                                              [isResumePoint : BOOLEAN,
                                               allocations :
                                                   UNION {[1..l -> {a \in TraceAllocations :
                                                               \/ a.mode = "RECOVER_INSTRUCTION"
                                                               \/ /\ a.mode = "TYPED_STACK"
                                                                  /\ a.stackOffset2 = 1}] :
                                                           l \in 0..MaxAllocations}]] :
                                          /\ u[k].isResumePoint
                                          /\ AllocationsIn(u, k) <= MaxAllocations} :
                                     k \in 1..MaxSnapshotInstructions}}
              \cup UNION {{[phase |-> "pc_mapping", entries |-> t, op |-> i] :
                              i \in 1..Len(t)} :
                       t \in UNION {{u \in [1..k -> [pcDelta : 0..2, nativeDelta : {0, 2}]] :
                                          /\ u[1].pcDelta = 0
                                          /\ \A j \in 2..k : u[j].pcDelta > 0} :
                                     k \in 1..MaxOps}}
              \cup {[phase |-> "descriptor", times |-> 0,
                     frames |-> <<[kind |-> "JitFrame_IonJS", addr |-> ActivationBase(1),
                                   prevType |-> p, prevSize |-> n, retAddr |-> 500 + r],
                                  [kind |-> "JitFrame_IonJS",
                                   addr |-> ActivationBase(1) + JitFrameLayout_Size + n,
                                   prevType |-> "JitFrame_Entry", prevSize |-> n,
                                   retAddr |-> 500]>>] :
                       p \in {"JitFrame_Entry", "JitFrame_IonJS", "JitFrame_BaselineJS",
                              "JitFrame_BaselineStub", "JitFrame_Rectifier"}
                             \cup UnwoundTypes,
                       n \in 0..1, r \in 0..1}
              \cup {[phase |-> "baseline_pc",
                     it |-> [NoIter EXCEPT !.current = ActivationBase(1),
                                           !.type = "JitFrame_BaselineJS",
                                           !.returnAddressToFp = ra],
                     frame |-> [overridePc |-> o, debugModeOSRPc |-> d],
                     baselineScript |-> [icEntryPc |-> e, mappedPc |-> m]] :
                       ra \in {prologueEntryAddr, postDebugPrologueAddr,
                               postDebugPrologueAddr + 1},
                       o \in {NoPc} \cup 0..MaxPc, d \in {NoPc} \cup 0..MaxPc,
                       e \in {NoPc} \cup 0..MaxPc, m \in 0..MaxPc}

\* MarkIonJSFrame(trc, frame)
MarkIonFrame ==
    /\ mk.phase = "frame"
    /\ \E moves \in BOOLEAN :
          mk' = [phase |-> "marked", frame |-> mk.frame, moves |-> moves,
                 out |-> MarkIonJSFrame(mk.frame, mk.frame.execMode, moves)]
    /\ UNCHANGED <<threadVars, bl, sn>>

\* snapIter.traceAllocation(trc) in MarkBailoutFrame
TraceAllocation ==
    /\ mk.phase = "allocation"
    /\ \E moves \in BOOLEAN :
          mk' = [phase |-> "traced", job |-> mk.job, moves |-> moves,
                 out |-> traceAllocation(mk.job.it, mk.job.alloc, moves)]
    /\ UNCHANGED <<threadVars, bl, sn>>

\* allocationReadable(alloc, rm) on an iterator with any machine state
AllocationReadable ==
    /\ mk.phase = "readable"
    /\ mk' = [phase |-> "readable_checked", alloc |-> mk.alloc, it |-> mk.it,
               rm |-> mk.rm, out |-> allocationReadable(mk.it, mk.alloc, mk.rm)]
    /\ UNCHANGED <<threadVars, bl, sn>>

\* MarkBailoutFrame(trc, frame) in MarkJitActivation
MarkBailout ==
    /\ mk.phase = "bailout"
    /\ \E moves \in BOOLEAN :
          mk' = [phase |-> "bailout_marked", it |-> mk.it, nargs |-> mk.nargs,
                 instrs |-> mk.instrs, moves |-> moves,
                 out |-> MarkBailoutFrame(mk.it, mk.nargs, mk.instrs, 1, 1, moves)]
    /\ UNCHANGED <<threadVars, bl, sn>>

\* baselineScript->maybeNativeCodeForPC(script, pc) for the op mk.op of a
\* script compiled with the PC-mapping entries mk.entries
NativeCodeForPC ==
    /\ mk.phase = "pc_mapping"
    /\ LET buffer == PCMappingBuffer(mk.entries, 1)
           index == PCMappingIndex(mk.entries)
           pcOffset == OffsetsOf(mk.entries, mk.op).pcOffset
       IN  mk' = [phase |-> "pc_mapped", entries |-> mk.entries, op |-> mk.op,
                  buffer |-> buffer, index |-> index, pcOffset |-> pcOffset,
                  out |-> maybeNativeCodeForPC(buffer, index, pcOffset)]
    /\ UNCHANGED <<threadVars, bl, sn>>

\* EnsureExitFrame(frame) on the first frame of mk.frames, the first time or
\* once more on what the first call left.
EnsureExit ==
    /\ mk.phase \in {"descriptor", "ensured"}
    /\ mk.times < 2
    /\ mk' = [phase |-> "ensured", times |-> mk.times + 1,
               before |-> IF mk.times = 0 THEN mk.frames ELSE mk.before,
               frames |-> EnsureExitFrame(mk.frames, mk.frames[1].addr)]
    /\ UNCHANGED <<threadVars, bl, sn>>

\* frame.checkInvalidation(&ionScript) on an iterator that stands on an Ion
\* frame or on a frame under bailout.
CheckInvalidation ==
    /\ mk.phase = "iterator"
    /\ mk' = [phase |-> "checked", it |-> mk.it, bailoutData |-> mk.bailoutData,
               scriptIon |-> mk.scriptIon,
               out |-> checkInvalidation(mk.it, mk.bailoutData, mk.scriptIon)]
    /\ UNCHANGED <<threadVars, bl, sn>>

\* MarkJitExitFrame(trc, frames) on an iterator that stands on an exit frame
MarkExitFrame ==
    /\ mk.phase = "exit"
    /\ mk' = [phase |-> "exit_marked", frames |-> mk.frames, it |-> mk.it,
              exit |-> mk.exit,
              out |-> MarkJitExitFrame(mk.frames, mk.it, mk.exit)]
    /\ UNCHANGED <<threadVars, bl, sn>>

\* frame.baselineScriptAndPc(&script, &pc) on an iterator that stands on a
\* baseline frame
BaselineScriptAndPc ==
    /\ mk.phase = "baseline_pc"
    /\ mk' = [phase |-> "pc_resolved", it |-> mk.it, frame |-> mk.frame,
              baselineScript |-> mk.baselineScript,
              out |-> baselineScriptAndPc(mk.it, mk.frame, mk.baselineScript)]
    /\ UNCHANGED <<threadVars, bl, sn>>

\* InlineFrameIterator::resetOn(iter) with a frame, as the constructors do
InlineResetOn ==
    /\ mk.phase = "inline_ready"
    /\ LET r == InlineFindNextFrame([frameCount |-> UINT32_MAX, framesRead |-> 0],
                                    mk.sites)
       IN  mk' = [phase |-> IF r.crashed THEN "inline_crashed" ELSE "inline",
                  sites |-> mk.sites, it |-> r, calls |-> 1]
    /\ UNCHANGED <<threadVars, bl, sn>>

\* InlineFrameIterator::operator++, which is findNextFrame, while more()
InlineIncrement ==
    /\ mk.phase = "inline"
    /\ mk.it.framesRead < mk.it.frameCount
    /\ LET r == InlineFindNextFrame([frameCount |-> mk.it.frameCount,
                                     framesRead |-> mk.it.framesRead], mk.sites)
       IN  mk' = [phase |-> IF r.crashed THEN "inline_crashed" ELSE "inline",
                  sites |-> mk.sites, it |-> r, calls |-> mk.calls + 1]
    /\ UNCHANGED <<threadVars, bl, sn>>

\* PCMappingSlotInfo::MakeSlotInfo(...) or PCMappingSlotInfo(byte), and the
\* accessors applied to the result
SlotInfo ==
    /\ mk.phase = "slot_info"
    /\ LET j == mk.job
           info == IF "byte" \in DOMAIN j THEN PCMappingSlotInfo(j.byte)
                   ELSE IF Len(j.args) = 0 THEN MakeSlotInfo0
                   ELSE IF Len(j.args) = 1 THEN MakeSlotInfo1(j.args[1])
                   ELSE MakeSlotInfo2(j.args[1], j.args[2])
       IN  mk' = [phase |-> "slot_made", job |-> j, info |-> info,
                  numUnsynced |-> numUnsynced(info),
                  topSlotLocation |-> topSlotLocation(info),
                  nextSlotLocation |-> nextSlotLocation(info),
                  toByte |-> toByte(info)]
    /\ UNCHANGED <<threadVars, bl, sn>>

\* One frame of the walk of UpdateJitActivationsForMinorGC
UpdateForMinorGC ==
    /\ mk.phase = "minor_gc"
    /\ \E type \in InnerKinds \cup TopKinds \cup {"JitFrame_Unwound_Rectifier"} :
          mk' = [phase |-> "minor_gc_done", frame |-> mk.frame, type |-> type,
                 out |-> UpdateJitActivationsForMinorGC(type, mk.frame)]
    /\ UNCHANGED <<threadVars, bl, sn>>

NextMark ==
    \/ MarkIonFrame
    \/ TraceAllocation
    \/ CheckInvalidation
    \/ MarkExitFrame
    \/ BaselineScriptAndPc
    \/ AllocationReadable
    \/ MarkBailout
    \/ NativeCodeForPC
    \/ EnsureExit
    \/ InlineResetOn
    \/ InlineIncrement
    \/ SlotInfo
    \/ UpdateForMinorGC

SpecMark == InitMark /\ [][NextMark]_vars

\* The script's current IonScript is absent or does not hold the return
\* address of the marked frame.
CurrentIonScriptStale ==
    \/ mk.frame.scriptIon = NULL
    \/ ~containsReturnAddress(mk.frame.scriptIon, mk.frame.returnAddress)

\* The safepoint was looked up in the IonScript recovered from the return
\* address, and that IonScript was traced.
UsedEmbeddedIonScript ==
    /\ mk.out.safepointScript = IonScriptAtReturnAddress(mk.frame.returnAddress)
    /\ mk.out.safepointScript # mk.frame.scriptIon
    /\ mk.out.traced = <<mk.out.safepointScript>>

\* The safepoint was looked up in the IonScript of the callee token, and no
\* IonScript was traced.
UsedCalleeTokenIonScript ==
    /\ mk.out.safepointScript = ionScriptFromCalleeToken(mk.frame.execMode, mk.frame)
    /\ mk.out.traced = << >>

\* C3 as stated: whenever the script's current IonScript is absent or does
\* not contain the return address of the frame, MarkIonJSFrame takes the
\* safepoint from the IonScript recovered from the return address and traces
\* that IonScript; otherwise it uses the IonScript of the callee token and
\* traces nothing.
C3_StaleScriptTraced ==
    mk.phase = "marked" =>
        IF CurrentIonScriptStale THEN UsedEmbeddedIonScript
        ELSE UsedCalleeTokenIonScript

\* C3: for a frame run in SequentialExecution whose script's current IonScript
\* is absent or does not contain the return address, MarkIonJSFrame takes the
\* safepoint from the IonScript recovered from the return address, never
\* from the current one, and traces that IonScript; for every other frame,
\* which includes every frame run in ParallelExecution, it uses the IonScript
\* of the callee token and traces nothing.
C3_InvalidatedFrameTraced ==
    mk.phase = "marked" =>
        IF mk.frame.execMode = "SequentialExecution" /\ CurrentIonScriptStale
        THEN UsedEmbeddedIonScript
        ELSE UsedCalleeTokenIonScript

C3_Witness ==
    /\ mk.phase = "marked"
    /\ mk.frame.execMode = "SequentialExecution"
    /\ mk.frame.scriptIon = RecompiledIonScript(OwnIonScript)
    /\ mk.out.traced = <<OwnIonScript>>
    /\ mk.out.safepointScript = OwnIonScript

\* The safepoint MarkIonJSFrame read, and the roots it took from the stack
\* slots and the spilled registers of that safepoint.
SafepointRead == getSafepoint(mk.frame, mk.out.safepointScript)

SafepointRoots ==
    {i \in 1..Len(mk.out.roots) :
        mk.out.roots[i].name \in {"ion-gc-slot", "ion-gc-spill", "ion-value-spill"}}

LiveSlots == SafepointRead.gcSlots \cup SafepointRead.valueSlots
LiveSpills == SafepointRead.gcSpills \cup SafepointRead.valueSpills

\* The locations of the live slots and of the live spilled registers, the
\* latter found by walking all spilled registers down from the spill base.
ExpectedRootAddresses ==
    {slotRef(mk.frame.fp, o) : o \in LiveSlots}
    \cup {RegisterLocation(Backward(SafepointRead.allGprSpills),
                           spillBase(mk.frame.fp, mk.out.safepointScript), r) :
            r \in LiveSpills}

\* C4 as stated: with N live slots and M spilled registers, of which some
\* hold no GC thing, the walk visits exactly N+M slot and spill roots.
C4_VisitsEverySpill ==
    mk.phase = "marked" =>
        Cardinality(SafepointRoots)
            = Cardinality(LiveSlots) + Cardinality(SafepointRead.allGprSpills)

\* C4: the walk visits exactly one root for each live slot and for each
\* spilled register the safepoint classifies as GC pointer or value, at the
\* slot's address or at the register's place in the downward walk over all
\* spilled registers; a spilled register that holds no GC thing takes its
\* place in that walk and is not visited.
C4_VisitsEveryLiveSpill ==
    mk.phase = "marked" =>
        /\ Cardinality(SafepointRoots) = Cardinality(LiveSlots) + Cardinality(LiveSpills)
        /\ {mk.out.roots[i].addr : i \in SafepointRoots} = ExpectedRootAddresses
        /\ \A i, j \in SafepointRoots :
              mk.out.roots[i].addr = mk.out.roots[j].addr => i = j

C4_Witness ==
    /\ mk.phase = "marked"
    /\ SafepointRead.gcSlots # {}
    /\ SafepointRead.valueSlots # {}
    /\ SafepointRead.allGprSpills = {0, 1}
    /\ SafepointRead.gcSpills = {0}
    /\ SafepointRead.valueSpills = {}
    /\ \E i \in SafepointRoots :
          /\ mk.out.roots[i].name = "ion-gc-spill"
          /\ mk.out.roots[i].addr = spillBase(mk.frame.fp, mk.out.safepointScript) - 2

\* The torn allocations of a snapshot and the places of their halves.
TornModes ==
    {"UNTYPED_REG_REG", "UNTYPED_REG_STACK", "UNTYPED_STACK_REG", "UNTYPED_STACK_STACK"}

TagPlace(alloc) ==
    IF alloc.mode \in {"UNTYPED_REG_REG", "UNTYPED_REG_STACK"}
    THEN [kind |-> "reg", at |-> alloc.reg]
    ELSE [kind |-> "stack", at |-> alloc.stackOffset]

PayloadPlace(alloc) ==
    IF alloc.mode \in {"UNTYPED_REG_REG", "UNTYPED_STACK_REG"}
    THEN [kind |-> "reg", at |-> alloc.reg2]
    ELSE [kind |-> "stack", at |-> alloc.stackOffset2]

\* The torn value of the marked frame was relocated by the tracer.
TornValueMoved ==
    /\ mk.moves
    /\ Len(SafepointRead.nunbox) = 1
    /\ isMarkable([tag |-> mk.frame.mem[AllocationAddress(mk.frame, mk.out.safepointScript,
                                            SafepointRead.nunbox[1].type)],
                   payload |-> 0])

\* C5: when the tracer relocates a torn value, MarkIonJSFrame stores the new
\* payload at the location of the payload half and nowhere else, and
\* writeAllocationValuePayload stores it into the register or the stack slot
\* of the payload half and nowhere else; neither writes the location of the
\* tag half; when the tracer leaves the value as it is, nothing is written.
C5_OnlyPayloadWritten ==
    /\ mk.phase = "marked" =>
          LET nb == SafepointRead.nunbox
              at(a) == AllocationAddress(mk.frame, mk.out.safepointScript, a)
          IN  IF TornValueMoved
              THEN /\ Len(mk.out.writes) = 1
                   /\ mk.out.writes[1].addr = at(nb[1].payload)
                   /\ mk.out.writes[1].addr # at(nb[1].type)
                   /\ mk.out.writes[1].value = mk.frame.mem[at(nb[1].payload)] + 1
              ELSE mk.out.writes = << >>
    /\ mk.phase = "traced" =>
          /\ ~mk.out.crashed
          /\ ~(mk.moves /\ mk.out.marked) => mk.out.writes = << >>
          /\ mk.job.alloc.mode \in TornModes /\ mk.moves /\ mk.out.marked =>
                /\ Len(mk.out.writes) = 1
                /\ [kind |-> mk.out.writes[1].kind, at |-> mk.out.writes[1].at]
                      = PayloadPlace(mk.job.alloc)
                /\ PayloadPlace(mk.job.alloc) # TagPlace(mk.job.alloc)
                /\ mk.out.writes[1].value = mk.job.it.word + 1

C5_Witness ==
    /\ mk.phase = "marked"
    /\ TornValueMoved
    /\ SafepointRead.nunbox[1].type.kind = "reg"
    /\ SafepointRead.nunbox[1].payload.kind = "stack"
    /\ Len(mk.out.writes) = 1
    /\ mk.out.writes[1].addr = slotRef(mk.frame.fp, SafepointRead.nunbox[1].payload.at)

\* ------------------------------------------------- Recover instruction results

\* The instructions of a recover table at most, the last being a resume
\* point, and the calls of RInstruction::recover followed.
MaxInstructions == 3
MaxRecoverCalls == 4

\* Values: MagicValue(why) and Int32Value(n).
MagicValue(why) == [magic |-> why, bits |-> 0]
Int32Value(n) == [magic |-> "none", bits |-> n]
isMagic(v, why) == v.magic = why
NoValue == [magic |-> "unread", bits |-> 0]

\* The recover tables of a snapshot: instruction i (counted from 0) is a
\* resume point or a recover instruction whose operands are the results of
\* recover instructions before it; the last instruction is a resume point.
RInstructions ==
    {[isResumePoint |-> TRUE, operands |-> {}]}
    \cup {[isResumePoint |-> FALSE, operands |-> ops] :
             ops \in SUBSET (0..(MaxInstructions - 3))}

RecoverTables ==
    UNION {{t \in [1..n -> RInstructions] :
               /\ t[n].isResumePoint
               /\ \A i \in 1..n : \A j \in t[i].operands :
                     j + 1 < i /\ ~t[j + 1].isResumePoint} :
           n \in 1..MaxInstructions}

\* Two Ion frames of one activation that run the same code.
SnapshotFrames == {ActivationBase(1), ActivationBase(2)}

\* RInstructionResults::RInstructionResults(fp).  stores counts, for each
\* slot, the assignments made to it after init.
NoRecovery == [fp |-> NULL, initialized |-> FALSE, results |-> << >>, stores |-> << >>]
RInstructionResults(fp) ==
    [fp |-> fp, initialized |-> FALSE, results |-> << >>, stores |-> << >>]

\* An init that leaves the results unmarked.
RInstructionResults_init_Unmarked(r, numResults) ==
    [r EXCEPT !.results = [i \in 1..numResults |-> MagicValue("JS_ION_BAILOUT")],
              !.stores = [i \in 1..numResults |-> 0]]

\* An init that marks the results initialized only when it has allocated.
RInstructionResults_init_Empty(r, numResults) ==
    [r EXCEPT !.results = [i \in 1..numResults |-> MagicValue("JS_ION_BAILOUT")],
              !.stores = [i \in 1..numResults |-> 0],
              !.initialized = numResults > 0]

\* RInstructionResults::init when its allocation succeeds
RInstructionResults_init(r, numResults) ==
    [r EXCEPT !.results = [i \in 1..numResults |-> MagicValue("JS_ION_BAILOUT")],
              !.stores = [i \in 1..numResults |-> 0],
              !.initialized = TRUE]

\* A store into the slot after the current instruction's.
storeInstructionResult_Next(r, numInstructionsRead, v) ==
    LET currIns == numInstructionsRead
    IN  [r EXCEPT !.results = [i \in DOMAIN @ |-> IF i = currIns + 1 THEN v ELSE @[i]],
                  !.stores = [i \in DOMAIN @ |-> IF i = currIns + 1 THEN @[i] + 1 ELSE @[i]]]

\* SnapshotIterator::storeInstructionResult on an iterator that has read
\* numInstructionsRead instructions and whose instructionResults_ is r.
storeInstructionResult(r, numInstructionsRead, v) ==
    LET currIns == numInstructionsRead - 1
    IN  [r EXCEPT !.results = [i \in DOMAIN @ |-> IF i = currIns + 1 THEN v ELSE @[i]],
                  !.stores = [i \in DOMAIN @ |-> IF i = currIns + 1 THEN @[i] + 1 ELSE @[i]]]

\* The MOZ_ASSERT of storeInstructionResult
storeAsserted(r, numInstructionsRead) ==
    isMagic(r.results[numInstructionsRead], "JS_ION_BAILOUT")

\* SnapshotIterator::fromInstructionResult
fromInstructionResult(r, index) == r.results[index + 1]

\* RInstruction::recover for the instruction the iterator stands on: it reads
\* its operands and stores one result.
RECURSIVE SumOperands(_, _)
SumOperands(r, ops) ==
    IF ops = {} THEN 0
    ELSE LET j == CHOOSE x \in ops : TRUE
         IN  fromInstructionResult(r, j).bits + SumOperands(r, ops \ {j})

recover(r, instr, numInstructionsRead) ==
    storeInstructionResult(r, numInstructionsRead,
                           Int32Value(numInstructionsRead + SumOperands(r, instr.operands)))

\* A failure path that leaves the registered results on the activation.
removeIonFrameRecovery_Kept(ionRecovery, fp) == ionRecovery

\* fallback.activation->removeIonFrameRecovery(fp), the discard of the results
\* collected so far when computeInstructionResults fails.
removeIonFrameRecovery(ionRecovery, fp) == [ionRecovery EXCEPT ![fp] = NoRecovery]

\* A test that never finds registered results.
ResultsMissing_Always(results) == TRUE

\* if (!results) in initInstructionResults
ResultsMissing(results) == results = NoRecovery

\* Most invalidations of the frames' IonScript followed in one behaviour.
MaxInvalidations == 2

\* A maybeRead that hands the failure of initInstructionResults on.
maybeReadReturn_Reports(s) ==
    IF s.caller # "maybeRead" THEN s
    ELSE [s EXCEPT !.op = "maybeRead", !.usedPlaceholder = FALSE, !.alloc = 0]

\* What maybeRead does with the answer of initInstructionResults, s being the
\* state in which initInstructionResults returns s.ret for the allocation
\* s.alloc: CrashAtUnhandlableOOM on false, otherwise the allocation is
\* readable now and its value is returned.  A direct caller of
\* initInstructionResults gets s.ret.
maybeReadReturn(s) ==
    IF s.caller # "maybeRead" THEN s
    ELSE IF ~s.ret
    THEN [s EXCEPT !.op = "maybeRead", !.phase = "crashed", !.crashed = TRUE,
                   !.usedPlaceholder = FALSE, !.alloc = 0]
    ELSE LET v == fromInstructionResult(s.ionRecovery[s.instructionResults], s.alloc)
         IN  [s EXCEPT !.op = "maybeRead", !.lastRead = v, !.usedPlaceholder = FALSE,
                       !.assertFailed = @ \/ isMagic(v, "JS_ION_BAILOUT"),
                       !.alloc = 0]

\* The thread's recover state.
\*   table: the recover table of the frames' snapshot
\*   ionRecovery: JitActivation's registered results, by frame; under NULL,
\*     a results object its owner has not registered on the activation
\*   recoverCalls: the calls of RInstruction::recover made so far
\*   fp, instructionResults: the frame of the SnapshotIterator that called
\*     last and its instructionResults_, named by the frame it belongs to
\*   numInstructionsRead: of the iterator that computes the results
\*   op, ret, reused: the last operation, what it returned, and whether it
\*     found registered results
\*   lastRead: the last value read
\*   assertFailed: a MOZ_ASSERT of store/fromInstructionResult did not hold
\*   caller, alloc: the function entered from outside (initInstructionResults,
\*     maybeRead or computeInstructionResults) and, while maybeRead waits for
\*     initInstructionResults, the recover instruction its allocation names
\*   consequence, failure: the fallback's consequence in the last call of
\*     initInstructionResults and the step of it that failed
\*   invalidations: successful calls of ionScript_->invalidate, by the frame
\*     of the fallback
\*   usedPlaceholder: the last maybeRead returned the fallback's placeholder
\*   warnings: calls of warnUnreadableAllocation
\*   crashed: CrashAtUnhandlableOOM was reached
\*   traceFault: a GC trace of the activation's results met a results object
\*     without a vector
InitSnapshot ==
    /\ ThreadAtRest
    /\ bl = NoBl
    /\ mk = NoMk
    /\ sn \in {[phase |-> "idle", table |-> t,
                ionRecovery |-> [f \in SnapshotFrames \cup {NULL} |-> NoRecovery],
                recoverCalls |-> 0, fp |-> NULL, instructionResults |-> NULL,
                numInstructionsRead |-> 0, op |-> "none", ret |-> TRUE,
                reused |-> FALSE, lastRead |-> NoValue, assertFailed |-> FALSE,
                caller |-> "none", alloc |-> 0, consequence |-> "none",
                failure |-> "none", invalidations |-> [f \in SnapshotFrames |-> 0],
                usedPlaceholder |-> FALSE, warnings |-> 0, crashed |-> FALSE,
                traceFault |-> FALSE] :
                  t \in RecoverTables}

\* SnapshotIterator::initInstructionResults(fallback), up to the loop of
\* computeInstructionResults, for a new SnapshotIterator of frame fp; called
\* by an outside caller or by maybeRead for an allocation that names recover
\* instruction index and is not readable, with a fallback that can recover
\* results.
InitInstructionResults ==
    /\ sn.phase = "idle"
    /\ \E fp \in SnapshotFrames, invalidateOK, registerOK, initOK \in BOOLEAN,
          consequence \in {"Fallback_Invalidate", "Fallback_DoNothing"},
          caller \in {"init", "maybeRead"}, index \in 0..(Len(sn.table) - 1) :
          LET numInstructions == Len(sn.table)
              results == sn.ionRecovery[fp]
              invalidates == ResultsMissing(results) /\ numInstructions > 1
                             /\ consequence = "Fallback_Invalidate" /\ invalidateOK
              call == [sn EXCEPT !.fp = fp, !.op = "init", !.instructionResults = NULL,
                                 !.reused = FALSE, !.lastRead = NoValue,
                                 !.caller = caller, !.alloc = index,
                                 !.consequence = consequence, !.failure = "none",
                                 !.usedPlaceholder = FALSE,
                                 !.invalidations[fp] = IF invalidates THEN @ + 1 ELSE @]
          IN  /\ caller = "init" => index = 0
              /\ consequence = "Fallback_DoNothing" => invalidateOK
              /\ ~invalidateOK => registerOK
              /\ ~registerOK => initOK
              /\ (numInstructions = 1 \/ ~ResultsMissing(results)) =>
                    invalidateOK /\ registerOK /\ initOK
              /\ caller = "maybeRead" =>
                    index + 1 < numInstructions /\ ~sn.table[index + 1].isResumePoint
              /\ invalidates =>
                    sn.invalidations[ActivationBase(1)]
                        + sn.invalidations[ActivationBase(2)] < MaxInvalidations
              /\ IF numInstructions = 1
                 THEN sn' = [call EXCEPT !.ret = TRUE]
                 ELSE IF ~ResultsMissing(results)
                 THEN sn' = maybeReadReturn(
                                [call EXCEPT !.ret = TRUE, !.reused = TRUE,
                                             !.instructionResults = fp,
                                             !.assertFailed = @ \/ ~results.initialized])
                 ELSE IF consequence = "Fallback_Invalidate" /\ ~invalidateOK
                 THEN sn' = maybeReadReturn(
                                [call EXCEPT !.ret = FALSE, !.failure = "invalidate"])
                 ELSE IF ~registerOK
                 THEN sn' = maybeReadReturn(
                                [call EXCEPT !.ret = FALSE, !.failure = "register"])
                 ELSE IF ~initOK
                 THEN sn' = maybeReadReturn(
                                [call EXCEPT !.ret = FALSE, !.failure = "compute",
                                             !.ionRecovery =
                                                 removeIonFrameRecovery(@, fp)])
                 ELSE /\ sn.recoverCalls + numInstructions - 1 <= MaxRecoverCalls
                      /\ sn' = [call EXCEPT
                                   !.phase = "computing",
                                   !.ionRecovery[fp] =
                                       RInstructionResults_init(RInstructionResults(fp),
                                                                numInstructions - 1),
                                   !.numInstructionsRead = 1]
    /\ UNCHANGED <<threadVars, bl, mk>>

\* SnapshotIterator::computeInstructionResults(cx, results), up to its loop,
\* called from outside on a results object that is not registered.
ComputeInstructionResults ==
    /\ sn.phase = "idle"
    /\ \E initOK \in BOOLEAN :
          LET numResults == Len(sn.table) - 1
              call == [sn EXCEPT !.fp = NULL, !.op = "compute", !.caller = "compute",
                                 !.instructionResults = NULL, !.reused = FALSE,
                                 !.lastRead = NoValue, !.alloc = 0,
                                 !.consequence = "none", !.failure = "none",
                                 !.usedPlaceholder = FALSE]
          IN  IF numResults > 0 /\ ~initOK
              THEN sn' = [call EXCEPT !.ret = FALSE, !.failure = "compute",
                                      !.ionRecovery[NULL] = NoRecovery]
              ELSE IF numResults = 0
              THEN sn' = [call EXCEPT
                             !.ret = TRUE,
                             !.ionRecovery[NULL] =
                                 RInstructionResults_init(RInstructionResults(NULL), 0)]
              ELSE /\ sn.recoverCalls + numResults <= MaxRecoverCalls
                   /\ sn' = [call EXCEPT
                                !.phase = "computing",
                                !.ionRecovery[NULL] =
                                    RInstructionResults_init(RInstructionResults(NULL),
                                                             numResults),
                                !.numInstructionsRead = 1]
    /\ UNCHANGED <<threadVars, bl, mk>>

\* One iteration of the while (s.moreInstructions()) loop of
\* computeInstructionResults.
RecoverInstruction ==
    /\ sn.phase = "computing"
    /\ sn.numInstructionsRead < Len(sn.table)
    /\ LET instr == sn.table[sn.numInstructionsRead]
           r == sn.ionRecovery[sn.fp]
       IN  IF instr.isResumePoint
           THEN sn' = [sn EXCEPT !.op = "skip", !.numInstructionsRead = @ + 1]
           ELSE \E ok \in BOOLEAN :
                   IF ok
                   THEN sn' = [sn EXCEPT
                                  !.op = "recover",
                                  !.recoverCalls = @ + 1,
                                  !.ionRecovery[sn.fp] =
                                      recover(r, instr, sn.numInstructionsRead),
                                  !.lastRead =
                                      IF instr.operands = {} THEN @
                                      ELSE fromInstructionResult(r,
                                               CHOOSE j \in instr.operands : TRUE),
                                  !.assertFailed =
                                      \/ @
                                      \/ ~storeAsserted(r, sn.numInstructionsRead)
                                      \/ \E j \in instr.operands :
                                            isMagic(fromInstructionResult(r, j),
                                                    "JS_ION_BAILOUT"),
                                  !.numInstructionsRead = @ + 1]
                   ELSE sn' = maybeReadReturn(
                                  [sn EXCEPT !.op = "recover", !.phase = "idle",
                                             !.recoverCalls = @ + 1, !.ret = FALSE,
                                             !.failure = "compute",
                                             !.ionRecovery =
                                                 IF sn.caller = "compute"
                                                 THEN [@ EXCEPT ![NULL] = NoRecovery]
                                                 ELSE removeIonFrameRecovery(@, sn.fp)])
    /\ UNCHANGED <<threadVars, bl, mk>>

\* The end of computeInstructionResults and, for its callers, of
\* initInstructionResults and of maybeRead.  An outside caller of
\* computeInstructionResults takes its results object away.
ComputeDone ==
    /\ sn.phase = "computing"
    /\ sn.numInstructionsRead >= Len(sn.table)
    /\ sn' = maybeReadReturn(
                 [sn EXCEPT !.op = "done", !.phase = "idle", !.ret = TRUE,
                            !.instructionResults = sn.fp,
                            !.assertFailed = @ \/ ~sn.ionRecovery[sn.fp].initialized,
                            !.ionRecovery[NULL] = NoRecovery])
    /\ UNCHANGED <<threadVars, bl, mk>>

\* allocationValue of a RECOVER_INSTRUCTION allocation, which names a recover
\* instruction of the table, on an iterator that has instruction results.
ReadRecovered ==
    /\ sn.phase = "idle"
    /\ sn.instructionResults # NULL
    /\ \E index \in 0..(Len(sn.table) - 2) :
          /\ ~sn.table[index + 1].isResumePoint
          /\ LET v == fromInstructionResult(sn.ionRecovery[sn.instructionResults], index)
             IN  sn' = [sn EXCEPT !.op = "read", !.lastRead = v,
                                  !.assertFailed = @ \/ isMagic(v, "JS_ION_BAILOUT")]
    /\ UNCHANGED <<threadVars, bl, mk>>

\* SnapshotIterator::maybeRead(a, fallback) where it does not enter
\* initInstructionResults: the allocation is readable (it names no recover
\* instruction, or the iterator has instruction results), or it is not and
\* the fallback cannot recover results (for a readable allocation the
\* fallback is never looked at).  The iterator is the one that called last or
\* a new one of frame fp; a constant allocation reads as Int32Value(0).
MaybeRead ==
    /\ sn.phase = "idle"
    /\ \E fresh, canRecoverResults, recoverSourced \in BOOLEAN, fp \in SnapshotFrames,
          index \in 0..(Len(sn.table) - 1),
          unreadablePlaceholder \in {MagicValue("undefined"),
                                     MagicValue("JS_OPTIMIZED_OUT")} :
          LET it == IF fresh THEN [sn EXCEPT !.fp = fp, !.instructionResults = NULL]
                    ELSE sn
              readable == ~recoverSourced \/ it.instructionResults # NULL
          IN  /\ it.fp # NULL
              /\ ~fresh => fp = it.fp
              /\ IF recoverSourced
                 THEN index + 1 < Len(sn.table) /\ ~sn.table[index + 1].isResumePoint
                 ELSE index = 0
              /\ canRecoverResults = readable
              /\ readable => unreadablePlaceholder = MagicValue("undefined")
              /\ sn' = [it EXCEPT
                           !.op = "maybeRead", !.caller = "maybeRead", !.alloc = 0,
                           !.ret = TRUE, !.reused = FALSE, !.consequence = "none",
                           !.failure = "none",
                           !.usedPlaceholder = ~readable,
                           !.lastRead =
                               IF ~readable THEN unreadablePlaceholder
                               ELSE IF recoverSourced
                               THEN fromInstructionResult(
                                        sn.ionRecovery[it.instructionResults], index)
                               ELSE Int32Value(0)]
    /\ UNCHANGED <<threadVars, bl, mk>>

\* RInstructionResults::trace on the results registered on the activation,
\* at a GC while the thread runs a recover instruction or between two calls.
TraceIonRecovery ==
    /\ sn.phase \in {"idle", "computing"}
    /\ sn' = [sn EXCEPT
                 !.traceFault =
                     \/ @
                     \/ \E f \in SnapshotFrames :
                           /\ sn.ionRecovery[f] # NoRecovery
                           /\ ~(sn.ionRecovery[f].initialized
                                /\ Len(sn.ionRecovery[f].results) > 0)]
    /\ UNCHANGED <<threadVars, bl, mk>>

NextSnapshot ==
    \/ InitInstructionResults
    \/ ComputeInstructionResults
    \/ RecoverInstruction
    \/ ComputeDone
    \/ ReadRecovered
    \/ MaybeRead
    \/ TraceIonRecovery

SpecSnapshot == InitSnapshot /\ [][NextSnapshot]_vars

\* A step that is a call of initInstructionResults for a frame whose results
\* are registered and computed reuses them and recovers nothing.
C6_ReuseStep ==
    (/\ sn.phase = "idle"
     /\ sn'.op = "init"
     /\ Len(sn.table) > 1
     /\ sn.ionRecovery[sn'.fp] # NoRecovery
     /\ sn.ionRecovery[sn'.fp].initialized)
    => /\ sn'.recoverCalls = sn.recoverCalls
       /\ sn'.phase = "idle"
       /\ sn'.ret = TRUE
       /\ sn'.instructionResults = sn'.fp
       /\ sn'.ionRecovery = sn.ionRecovery

\* C6: once initInstructionResults has registered and computed the results of
\* a frame, every later initInstructionResults for that frame returns the
\* registered RInstructionResults and calls RInstruction::recover not once.
C6_ResultsMemoized == [][C6_ReuseStep]_vars

C6_Witness ==
    /\ sn.phase = "idle"
    /\ sn.op = "init"
    /\ sn.reused
    /\ sn.recoverCalls = 2
    /\ sn.instructionResults = sn.fp
    /\ sn.ionRecovery[sn.fp].stores = <<1, 1>>

\* C7: every slot of a registered RInstructionResults holds the JS_ION_BAILOUT
\* placeholder exactly as long as nothing was stored into it, no slot is
\* stored into twice, storeInstructionResult finds the placeholder in the
\* slot it writes, and fromInstructionResult never returns the placeholder.
C7_PlaceholderUntilStored ==
    sn.phase # "none" =>
        /\ \A f \in SnapshotFrames :
              LET r == sn.ionRecovery[f]
              IN  \A i \in DOMAIN r.results :
                     /\ r.stores[i] <= 1
                     /\ r.stores[i] = 0 <=> isMagic(r.results[i], "JS_ION_BAILOUT")
        /\ ~sn.assertFailed
        /\ ~isMagic(sn.lastRead, "JS_ION_BAILOUT")

C7_Witness ==
    /\ sn.phase = "computing"
    /\ sn.op = "recover"
    /\ sn.ionRecovery[sn.fp].stores = <<1, 0>>
    /\ isMagic(sn.ionRecovery[sn.fp].results[2], "JS_ION_BAILOUT")
    /\ ~isMagic(sn.ionRecovery[sn.fp].results[1], "JS_ION_BAILOUT")

\* -------------------------------------------- properties of the unwinder, II

\* C11: for an Ion frame that checkInvalidation reports invalidated,
\* HandleException calls decrementInvalidationCount once, when it leaves the
\* loop over the inlined frames (by returning on RESUME_BAILOUT or at its
\* end) and not while it scans them; for a frame that is not invalidated it
\* never calls it.
C11_OneDecrementPerFrame ==
    last.kind = "JitFrame_IonJS" =>
        /\ pc = "he_ion" => last.decrements = 0
        /\ pc \notin {"he_ion", "crashed"} =>
              last.decrements = (IF last.invalidated THEN 1 ELSE 0)

C11_Witness ==
    /\ pc = "he_inc"
    /\ last.kind = "JitFrame_IonJS"
    /\ last.invalidated
    /\ last.frameCount = 2
    /\ last.frameNo = 0
    /\ last.decrements = 1

\* The positions an iterator and a walk have taken.
IteratorTypes ==
    {iter.type, witer.type} \cup {visited[k].type : k \in 1..Len(visited)}

\* C12 as stated: no unwound tag ever becomes the type of an iterator.
C12_NoUnwoundType == IteratorTypes \cap UnwoundTypes = {}

\* C12: operator++ turns the stored tags Unwound_IonJS, Unwound_BaselineJS and
\* Unwound_BaselineStub into IonJS, BaselineJS and BaselineStub, so none of
\* the three is ever the type of an iterator; every other stored tag,
\* Unwound_Rectifier among them, becomes the type as it is.
C12_ThreeUnwoundTagsTranslated ==
    /\ IteratorTypes \cap (UnwoundTypes \ {"JitFrame_Unwound_Rectifier"}) = {}
    /\ wpc = "walk" =>
          \A k \in 2..Len(visited) :
             LET stored == FrameAt(activations[wact].frames, visited[k - 1].addr).prevType
             IN  visited[k].type =
                    (CASE stored = "JitFrame_Unwound_IonJS" -> "JitFrame_IonJS"
                       [] stored = "JitFrame_Unwound_BaselineJS" -> "JitFrame_BaselineJS"
                       [] stored = "JitFrame_Unwound_BaselineStub" -> "JitFrame_BaselineStub"
                       [] OTHER -> stored)

C12_Witness ==
    /\ wpc = "walk"
    /\ Len(visited) = 3
    /\ FrameAt(activations[wact].frames, visited[1].addr).prevType
          = "JitFrame_Unwound_BaselineStub"
    /\ visited[2].type = "JitFrame_BaselineStub"
    /\ visited[3].type = "JitFrame_BaselineJS"

\* C19 as stated: the k-th inlined frame HandleException examines in an Ion
\* frame is the k-th frame counted from the outermost.
C19_OutermostFirst ==
    pc = "he_ion" => last.depth = last.frameCount - last.frameNo

\* C19: within one Ion frame HandleException examines the inlined frames from
\* the innermost to the outermost: the k-th frame it examines is the k-th
\* counted from the innermost, and the loop ends after the outermost.
C19_InnermostFirst ==
    /\ pc = "he_ion" =>
          /\ last.depth = last.frameCount - (last.frameCount - last.frameNo) + 1
          /\ last.depth >= 1
    /\ pc = "he_inc" /\ last.kind = "JitFrame_IonJS" => last.depth = 1

C19_Witness ==
    /\ pc = "he_ion"
    /\ last.frameCount = 2
    /\ last.frameNo = 0
    /\ last.depth = 1

C14_FakeExitFrameUnmarked ==
    (mk.phase = "exit_marked" /\ isFakeExitFrame(mk.frames, mk.it))
        => /\ ~mk.out.readFooter
           /\ mk.out.roots = << >>

\* A fake exit frame whose words, read as a VM-wrapper footer, would name a
\* function with a rooted argument.
C14_Witness ==
    /\ mk.phase = "exit_marked"
    /\ isFakeExitFrame(mk.frames, mk.it)
    /\ mk.exit.layout = "VMWrapper"
    /\ mk.exit.function.outParam = "Type_Handle"
    /\ mk.exit.function.args # << >>
    /\ mk.exit.function.args[1] = [root |-> "RootValue", word |-> 1]
    /\ mk.out.roots = << >>

\* The bytecode positions the sources of baselineScriptAndPc offer for the
\* resolved job, in the order of the claim; NoPc where a source does not apply.
C15_Offers ==
    <<[source |-> "overridePc", pc |-> mk.frame.overridePc],
      [source |-> "debugModeOSRInfo", pc |-> mk.frame.debugModeOSRPc],
      [source |-> "prologue",
       pc |-> IF mk.it.returnAddressToFp \in {prologueEntryAddr, postDebugPrologueAddr}
              THEN 0 ELSE NoPc],
      [source |-> "icEntry", pc |-> mk.baselineScript.icEntryPc],
      [source |-> "pcMapping", pc |-> mk.baselineScript.mappedPc]>>

\* C15: baselineScriptAndPc takes the bytecode position from the first source
\* that applies, in the order override pc, debug-mode-OSR stashed pc, start of
\* script for a prologue return address, IC entry, PC-mapping table, and it
\* consults no source after the one that applied.
C15_FirstApplicableSource ==
    mk.phase = "pc_resolved" =>
        \E k \in 1..5 :
            /\ C15_Offers[k].pc # NoPc
            /\ \A j \in 1..(k - 1) : C15_Offers[j].pc = NoPc
            /\ mk.out.source = C15_Offers[k].source
            /\ mk.out.pc = C15_Offers[k].pc
            /\ mk.out.consulted = [j \in 1..k |-> C15_Offers[j].source]

\* A prologue return address for which an IC entry with another position
\* exists too: the start of the script is taken and the entry is not looked up.
C15_Witness ==
    /\ mk.phase = "pc_resolved"
    /\ mk.frame.overridePc = NoPc
    /\ mk.frame.debugModeOSRPc = NoPc
    /\ mk.it.returnAddressToFp = postDebugPrologueAddr
    /\ mk.baselineScript.icEntryPc = 1
    /\ mk.out.pc = 0
    /\ mk.out.consulted = <<"overridePc", "debugModeOSRInfo", "prologue">>

\* ------------------------------------------ HandleExceptionIon on one frame

\* Note i of the handled inlined frame's script lies around the frame's pc.
IonNoteContains(i) ==
    LET tn == bl.inl.script.trynotes[i]
    IN  tn.start <= bl.inl.pc /\ bl.inl.pc < tn.start + tn.length

IonNoteKind(i) == bl.inl.script.trynotes[i].kind

\* The first note of one of the kinds around the pc, after note i; one past
\* the table if there is none.
IonFirstAfter(i, kinds) ==
    LET n == Len(bl.inl.script.trynotes)
        hits == {j \in (i + 1)..n : IonNoteContains(j) /\ IonNoteKind(j) \in kinds}
    IN  IF hits = {} THEN n + 1 ELSE CHOOSE j \in hits : \A h \in hits : j <= h

\* The CATCH note the scan comes to with an exception pending: the first CATCH
\* note around the pc, when the call was entered with an exception, no
\* debug-mode bailout was tried and no FINALLY note around the pc precedes it;
\* 0 if there is none.
IonCatchReached ==
    LET n == Len(bl.inl.script.trynotes)
        i == IonFirstAfter(0, {"JSTRY_CATCH"})
    IN  IF /\ bl.cx.exception # "none"
           /\ ~bl.env.shouldBail
           /\ i <= n
           /\ i < IonFirstAfter(0, {"JSTRY_FINALLY"})
        THEN i ELSE 0

\* The events of the call from position k on.
IonEventsFrom(k) == SubSeq(bl.st.events, k, Len(bl.st.events))

\* The CloseLiveIterator calls for the ITER notes around the pc among notes
\* lo..hi, in table order.
RECURSIVE IonClosed(_, _)
IonClosed(lo, hi) ==
    IF lo > hi THEN << >>
    ELSE (IF IonNoteContains(lo) /\ IonNoteKind(lo) = "JSTRY_ITER"
          THEN <<<<"CloseLiveIterator", bl.inl.frameNo,
                   bl.inl.script.trynotes[lo].stackDepth>>>>
          ELSE << >>) \o IonClosed(lo + 1, hi)

\* C16: a CATCH note around the pc that HandleExceptionIon comes to with an
\* exception pending resets the warm-up counter and then calls
\* ExceptionHandlerBailout with the inlined frame number, the bytecode at
\* main+start+length and the note's stack depth; when the bailout returns
\* BAILOUT_RETURN_OK the scan stops there, otherwise no exception is pending
\* any more and the scan goes on with the later notes.
C16_CatchBailsOut ==
    (bl.phase = "ion_handled" /\ IonCatchReached # 0) =>
        LET i == IonCatchReached
            tn == bl.inl.script.trynotes[i]
            n == Len(bl.inl.script.trynotes)
            before == IonClosed(1, i - 1)
            stop == IonFirstAfter(i, {"JSTRY_FINALLY"})
        IN  /\ bl.st.warmUpResets = 1
            /\ SubSeq(bl.st.events, 1, Len(before) + 2) =
                  before \o <<<<"resetWarmUpCounter", bl.inl.frameNo>>,
                              <<"ExceptionHandlerBailout", bl.inl.frameNo,
                                tn.start + tn.length, tn.stackDepth>>>>
            /\ bl.env.bailoutOK[i] =>
                  /\ Len(bl.st.events) = Len(before) + 2
                  /\ bl.st.rfe.kind = "RESUME_BAILOUT"
                  /\ ~bl.st.crashed
            /\ ~bl.env.bailoutOK[i] =>
                  /\ bl.st.exception = "none"
                  /\ bl.st.rfe.kind = "RESUME_ENTRY_FRAME"
                  /\ IonEventsFrom(Len(before) + 3) =
                        IonClosed(i + 1, IF stop <= n THEN stop - 1 ELSE n)
                  /\ bl.st.crashed = (stop <= n)

\* A failed bailout for a CATCH note after which an ITER note of the table is
\* still closed.
C16_Witness ==
    /\ bl.phase = "ion_handled"
    /\ IonCatchReached = 1
    /\ ~bl.env.bailoutOK[1]
    /\ Len(bl.inl.script.trynotes) = 2
    /\ IonNoteKind(2) = "JSTRY_ITER"
    /\ bl.inl.frameNo = 1
    /\ Len(bl.st.events) = 3
    /\ bl.st.events[3][1] = "CloseLiveIterator"

\* C17: for an optimized frame the unwinder acts only on try notes around the
\* pc whose stack depth does not exceed the frame's stack depth: every
\* CloseLiveIterator call and every bailout to a catch block is made for a
\* note that is not deeper than the frame.
C17_DeeperNotesSkipped ==
    bl.phase = "ion_handled" =>
        \A k \in 1..Len(bl.st.events) :
            LET e == bl.st.events[k]
            IN  /\ e[1] = "CloseLiveIterator" => e[3] <= bl.inl.stackDepth
                /\ (e[1] = "ExceptionHandlerBailout" /\ e[3] # NoPc)
                      => e[4] <= bl.inl.stackDepth

\* The FINALLY note the scan comes to: the first FINALLY note around the pc,
\* when neither the debug-mode bailout nor the bailout of an earlier CATCH
\* note has succeeded; 0 if there is none.
IonFinallyReached ==
    LET n == Len(bl.inl.script.trynotes)
        f == IonFirstAfter(0, {"JSTRY_FINALLY"})
        c == IonFirstAfter(0, {"JSTRY_CATCH"})
    IN  IF /\ f <= n
           /\ ~(bl.env.shouldBail /\ bl.env.bailoutOK[0])
           /\ ~(/\ c < f
                /\ bl.cx.exception # "none"
                /\ ~bl.env.shouldBail
                /\ bl.env.bailoutOK[c])
        THEN f ELSE 0

\* A bailout to the end of note i was requested.
IonBailedOutTo(i) ==
    LET tn == bl.inl.script.trynotes[i]
    IN  \E k \in 1..Len(bl.st.events) :
            bl.st.events[k] = <<"ExceptionHandlerBailout", bl.inl.frameNo,
                                tn.start + tn.length, tn.stackDepth>>

C20_ForcedReturnStops ==
    (bl.phase = "handled" /\ bl.cx.propagatingForcedReturn) =>
        /\ ~bl.st.propagatingForcedReturn
        /\ bl.st.events = <<<<"DebugEpilogue", bl.frame.pc>>>>
        /\ bl.st.rfe.kind = "RESUME_FORCED_RETURN"

\* C20: at a baseline frame, when a forced return is being propagated,
\* HandleExceptionBaseline clears the flag and runs ForcedReturn at once: the
\* onExceptionUnwind hook is not called and no try note is examined.  The
\* outcome is RESUME_FORCED_RETURN at this frame when DebugEpilogue succeeds;
\* when it fails, calledDebugEpilogue is set, the resume kind is untouched and
\* the frame is left to the caller.
C20_ForcedReturnAttempted ==
    (bl.phase = "handled" /\ bl.cx.propagatingForcedReturn) =>
        /\ ~bl.st.propagatingForcedReturn
        /\ bl.st.events = <<<<"DebugEpilogue", bl.frame.pc>>>>
        /\ bl.st.warmUpResets = 0
        /\ bl.st.unwoundScopeToPc = NoPc
        /\ bl.env.epilogueOK =>
              /\ bl.st.rfe.kind = "RESUME_FORCED_RETURN"
              /\ bl.st.rfe.framePointer = bl.frame.fp - BaselineFrame_FramePointerOffset
              /\ ~bl.st.calledDebugEpilogue
        /\ ~bl.env.epilogueOK =>
              /\ bl.st.rfe.kind = "RESUME_ENTRY_FRAME"
              /\ bl.st.calledDebugEpilogue

\* A forced return propagated to a debuggee frame that stands inside a CATCH
\* note, with DebugEpilogue failing.
C20_Witness ==
    /\ bl.phase = "handled"
    /\ bl.cx.propagatingForcedReturn
    /\ bl.cx.isDebuggee
    /\ Len(bl.frame.script.trynotes) = 1
    /\ bl.frame.script.trynotes[1].kind = "JSTRY_CATCH"
    /\ NoteMatches(1)
    /\ ~bl.env.epilogueOK
    /\ bl.st.rfe.kind = "RESUME_ENTRY_FRAME"
    /\ bl.st.calledDebugEpilogue

\* The FINALLY note the try-note loop of the handled baseline frame comes to
\* with an exception pending: the first matching FINALLY note, when the call
\* was entered with an exception, the debugger hook (if it ran) answered
\* neither JSTRAP_ERROR nor JSTRAP_RETURN, and no matching CATCH note before
\* it caught the exception; 0 if there is none.
FinallyReached ==
    LET f == FirstMatching({"JSTRY_FINALLY"})
        exc == bl.cx.exception
        hookRan == exc = "normal" /\ bl.cx.isDebuggee /\ bl.env.getOKHook
    IN  IF /\ f # 0
           /\ exc # "none"
           /\ ~(hookRan /\ bl.env.trap \in {"JSTRAP_ERROR", "JSTRAP_RETURN"})
           /\ \A j \in 1..(f - 1) :
                 ~(/\ NoteMatches(j)
                   /\ bl.frame.script.trynotes[j].kind = "JSTRY_CATCH"
                   /\ exc = "normal"
                   /\ bl.env.getOK[j])
        THEN f ELSE 0

\* C21: on a matching FINALLY note with an exception pending,
\* HandleExceptionBaseline returns RESUME_FINALLY with the native code of
\* bytecode main+start+length as target, rfe->exception holds the exception
\* that was pending, or undefined when it cannot be retrieved, and no
\* exception is pending on the context afterwards.
C21_ResumeInFinally ==
    (bl.phase = "handled" /\ FinallyReached # 0) =>
        LET tn == bl.frame.script.trynotes[FinallyReached]
        IN  /\ bl.st.rfe.kind = "RESUME_FINALLY"
            /\ bl.st.rfe.target = bl.frame.script.method + 3 * (tn.start + tn.length) + 1
            /\ bl.st.rfe.exception =
                  IF bl.cx.exception = "closing" \/ bl.env.getOK[FinallyReached]
                  THEN bl.cx.exception ELSE "undefined"
            /\ bl.st.exception = "none"
            /\ bl.st.warmUpResets = 0

\* A FINALLY note reached after a CATCH note that could not retrieve the
\* exception: the exception is dropped and undefined is stashed.
C21_Witness ==
    /\ bl.phase = "handled"
    /\ bl.cx.exception = "normal"
    /\ Len(bl.frame.script.trynotes) = 2
    /\ bl.frame.script.trynotes[1].kind = "JSTRY_CATCH"
    /\ NoteMatches(1)
    /\ FinallyReached = 2
    /\ ~bl.env.getOK[2]
    /\ bl.st.rfe.kind = "RESUME_FINALLY"
    /\ bl.st.rfe.exception = "undefined"
    /\ bl.st.exception = "none"

\* ---------------------------------------- properties of the recover results

\* A step that is a maybeRead of an unreadable allocation with a fallback that
\* cannot recover results.
C22_PlaceholderStep ==
    (/\ sn.phase = "idle"
     /\ sn' # sn
     /\ sn'.op = "maybeRead"
     /\ sn'.usedPlaceholder)
    => /\ sn'.lastRead \in {MagicValue("undefined"), MagicValue("JS_OPTIMIZED_OUT")}
       /\ sn'.warnings = sn.warnings + 1
       /\ sn'.recoverCalls = sn.recoverCalls
       /\ sn'.ionRecovery = sn.ionRecovery
       /\ sn'.invalidations = sn.invalidations

\* C22: maybeRead of an unreadable allocation, with a fallback that cannot
\* recover results, returns the fallback's placeholder and emits a diagnostic
\* warning; it evaluates no recover instruction and changes nothing on the
\* activation.
C22_PlaceholderAndWarning == [][C22_PlaceholderStep]_vars

\* C23 as stated: a failure of initInstructionResults under maybeRead is
\* reported to the caller of the read, nothing aborts.
C23_FailureReported ==
    (sn.phase # "none" /\ sn.failure # "none") =>
        /\ ~sn.ret
        /\ ~sn.crashed

\* C23: initInstructionResults answers false when the invalidation, the
\* registration or the computation fails, with no results left registered for
\* the frame and none attached to the iterator; an outside caller gets that
\* answer, while maybeRead turns it into CrashAtUnhandlableOOM.
C23_FailurePropagatedOrFatal ==
    (sn.phase # "none" /\ sn.failure # "none") =>
        /\ ~sn.ret
        /\ sn.ionRecovery[sn.fp] = NoRecovery
        /\ sn.instructionResults = NULL
        /\ sn.caller \in {"init", "compute"} => sn.phase = "idle" /\ ~sn.crashed
        /\ sn.caller = "maybeRead" => sn.phase = "crashed" /\ sn.crashed

\* A computation that failed under maybeRead after one recover instruction.
C23_Witness ==
    /\ sn.phase = "crashed"
    /\ sn.caller = "maybeRead"
    /\ sn.failure = "compute"
    /\ sn.recoverCalls = 2
    /\ sn.ionRecovery[sn.fp] = NoRecovery

\* C24: for a recover table that holds only the trailing resume point,
\* computeInstructionResults initializes the results with no entry and runs no
\* recover instruction, and initInstructionResults succeeds without
\* invalidating the IonScript and without registering anything.
C24_OnlyResumePoint ==
    (sn.phase # "none" /\ Len(sn.table) = 1) =>
        /\ sn.phase = "idle"
        /\ sn.recoverCalls = 0
        /\ \A f \in SnapshotFrames :
              sn.invalidations[f] = 0 /\ sn.ionRecovery[f] = NoRecovery
        /\ sn.op \in {"init", "compute"} => sn.ret
        /\ sn.op = "compute" =>
              /\ sn.ionRecovery[NULL].initialized
              /\ sn.ionRecovery[NULL].results = << >>

C24_Witness ==
    /\ sn.phase = "idle"
    /\ Len(sn.table) = 1
    /\ sn.op = "compute"
    /\ sn.ret
    /\ sn.ionRecovery[NULL].initialized
    /\ sn.recoverCalls = 0

C28_InvalidationStep ==
    \A f \in SnapshotFrames :
        sn'.invalidations[f] # sn.invalidations[f] =>
            /\ sn'.invalidations[f] = sn.invalidations[f] + 1
            /\ sn.phase = "idle"
            /\ sn'.fp = f
            /\ sn'.consequence = "Fallback_Invalidate"
            /\ sn.ionRecovery[f] = NoRecovery

C29_RegisteredBeforeRecover ==
    sn.phase # "none" =>
        /\ ~sn.traceFault
        /\ (sn.phase = "computing" /\ sn.caller # "compute") =>
              LET r == sn.ionRecovery[sn.fp]
              IN  /\ r # NoRecovery
                  /\ r.fp = sn.fp
                  /\ r.initialized
                  /\ Len(r.results) = Len(sn.table) - 1
                  /\ Len(r.results) > 0

\* The point before the first recover instruction of a frame's table, with
\* the results of the other frame already complete.
C29_Witness ==
    /\ sn.phase = "computing"
    /\ sn.caller = "init"
    /\ sn.recoverCalls = 2
    /\ sn.numInstructionsRead = 1
    /\ sn.ionRecovery[sn.fp].stores = <<0, 0>>

\* ------------------------------------------------ properties of readability

\* The registers an allocation reads, and whether the machine state has them.
RegistersKnown(it, alloc) ==
    CASE alloc.mode = "DOUBLE_REG" -> it.hasFpuReg
      [] alloc.mode \in {"TYPED_REG", "UNTYPED_STACK_REG"} -> alloc.reg2 \in it.machineRegs
      [] alloc.mode = "UNTYPED_REG_STACK" -> alloc.reg \in it.machineRegs
      [] alloc.mode = "UNTYPED_REG_REG" -> {alloc.reg, alloc.reg2} \subseteq it.machineRegs
      [] OTHER -> TRUE

RecoverSourced(alloc) == alloc.mode \in {"RECOVER_INSTRUCTION", "RI_WITH_DEFAULT_CST"}

C26_SafepointStep ==
    wpc' = "walk" =>
        /\ (wpc = "walk" /\ (witer'.current # witer.current \/ witer'.type # witer.type))
              => witer'.cachedSafepointIndex = NULL
        /\ witer'.cachedSafepointIndex # NULL =>
              /\ isIonJS(witer')
              /\ witer'.cachedSafepointIndex = witer'.returnAddressToFp

C26_SafepointNeverStale == [][C26_SafepointStep]_vars

\* The walk has stepped from an Ion frame onto the Ion frame of its caller
\* and asked for the safepoint there.
C26_Witness ==
    /\ wpc = "walk"
    /\ Len(visited) >= 3
    /\ visited[Len(visited) - 1].type = "JitFrame_IonJS"
    /\ isIonJS(witer)
    /\ witer.cachedSafepointIndex = witer.returnAddressToFp
    /\ witer.cachedSafepointIndex # NULL

\* ------------------------------------------------ properties of the bailout

\* The allocations of a snapshot in the order the snapshot lists them.
RECURSIVE SnapshotOrder(_, _)
SnapshotOrder(instrs, ins) ==
    IF ins > Len(instrs) THEN << >>
    ELSE [i \in 1..Len(instrs[ins].allocations) |->
             [ins |-> ins, idx |-> i, alloc |-> instrs[ins].allocations[i]]]
         \o SnapshotOrder(instrs, ins + 1)

\* C30: MarkBailoutFrame reads every allocation of every instruction of the
\* frame's snapshot, recover instructions and resume points alike, in order,
\* until none remains; it marks a value only if the allocation is readable in
\* always-default mode and the value is markable, reads no result of a recover
\* instruction (none is executed), and writes back, the payload only, exactly
\* when the tracer moved the value.
C30_EveryAllocationTraced ==
    mk.phase = "bailout_marked" =>
        LET order == SnapshotOrder(mk.instrs, 1)
            log == mk.out.log
        IN  /\ Len(log) = Len(order)
            /\ Len(log) = AllocationsIn(mk.instrs, Len(mk.instrs))
            /\ \A i \in 1..Len(log) :
                  LET a == order[i].alloc
                      o == log[i].out
                      v == allocationValue(mk.it, a)
                  IN  /\ log[i].ins = order[i].ins
                      /\ log[i].idx = order[i].idx
                      /\ a.mode = "RECOVER_INSTRUCTION" => ~o.read /\ ~o.marked
                      /\ o.marked <=>
                            /\ allocationReadable(mk.it, a, "RM_AlwaysDefault")
                            /\ isMarkable(v)
                      /\ (o.writes # << >>) <=> (o.marked /\ mk.moves)
                      /\ \A w \in 1..Len(o.writes) :
                            /\ o.writes[w].kind = "stack"
                            /\ o.writes[w].at = a.stackOffset2
                            /\ o.writes[w].value = v.payload + 1
                      /\ ~o.crashed

\* A snapshot of a recover instruction followed by a resume point, each with
\* one allocation, the second moved by the tracer.
C30_Witness ==
    /\ mk.phase = "bailout_marked"
    /\ Len(mk.instrs) = 2
    /\ ~mk.instrs[1].isResumePoint
    /\ mk.moves
    /\ Len(mk.out.log) = 2
    /\ mk.out.log[1].ins = 1
    /\ ~mk.out.log[1].out.read
    /\ mk.out.log[2].ins = 2
    /\ mk.out.log[2].out.marked
    /\ mk.out.log[2].out.writes # << >>

\* --------------------------------------------- properties of the PC mapping

\* C25: for every bytecode offset of an op of a baseline script, the native
\* offset found by binary search on the PC-mapping index and a forward linear
\* decode of the compact buffer is the one a full linear decode from the
\* start of the table finds, and the linear part decodes no more entries
\* than the index spacing.
C25_IndexedLookupIsLinearScan ==
    mk.phase = "pc_mapped" =>
        LET full == DecodeFrom(mk.buffer, 1, 0, 0, mk.pcOffset, FALSE, 0)
        IN  /\ mk.out.native = full.native
            /\ mk.out.native = OffsetsOf(mk.entries, mk.op).nativeOffset
            /\ full.decoded = mk.op
            /\ mk.out.decoded <= PCMappingInterval
            /\ mk.out.decoded = ((mk.op - 1) % PCMappingInterval) + 1

\* A lookup of the op after an index entry that is not the first, behind
\* entries of both sizes.
C25_Witness ==
    /\ mk.phase = "pc_mapped"
    /\ Len(mk.index) >= 2
    /\ mk.op = PCMappingInterval + 2
    /\ mk.out.decoded = 2
    /\ mk.out.native > 0
    /\ mk.index[2].bufferOffset > PCMappingInterval + 1
    /\ Len(mk.buffer) > Len(mk.entries)

\* ------------------------------------------- properties of the unwinder, III

\* C32: prevFp() is the address of the current frame plus
\* SizeOfFramePrefix(current type) plus the previous-frame local size of the
\* current descriptor, with the header size of an IonJS frame taken instead
\* for a fake exit frame; each step of a walk moves the iterator there.
C32_PrevFpIsHeaderPlusLocals ==
    wpc = "walk" =>
        \A k \in 2..Len(visited) :
           LET cur == FrameAt(activations[wact].frames, visited[k - 1].addr)
               header == IF cur.prevType \in UnwoundTypes
                         THEN SizeOfFramePrefix("JitFrame_IonJS")
                         ELSE SizeOfFramePrefix(visited[k - 1].type)
           IN  /\ header # CRASH_SIZE
               /\ visited[k].addr = visited[k - 1].addr + header + cur.prevSize

\* A walk has stepped off a fake exit frame, a baseline frame that the
\* unwinder left and whose header is larger than an exit frame's, with
\* locals of the caller between the two.
C32_Witness ==
    /\ wpc = "walk"
    /\ Len(visited) >= 2
    /\ visited[1].type = "JitFrame_Exit"
    /\ FrameAt(activations[wact].frames, visited[1].addr).prevType \in UnwoundTypes
    /\ FrameAt(activations[wact].frames, visited[1].addr).prevSize > 0
    /\ visited[2].addr = visited[1].addr + JitFrameLayout_Size
                         + FrameAt(activations[wact].frames, visited[1].addr).prevSize
    /\ JitFrameLayout_Size # ExitFrameLayout_Size

\* C36: on a stack whose descriptors normal calls wrote and only
\* EnsureExitFrame rewrote, the type the loop of MarkJitActivation dispatches
\* on is never Unwound_IonJS, Unwound_BaselineJS, Unwound_BaselineStub or
\* Entry, so neither MOZ_CRASH of the switch is reached.
C36_MarkingNeverAborts ==
    \A k \in 1..Len(markLog) : \A i \in 1..Len(markLog[k]) :
        /\ markLog[k][i].type \notin {"JitFrame_Unwound_IonJS", "JitFrame_Unwound_BaselineJS",
                                      "JitFrame_Unwound_BaselineStub", "JitFrame_Entry"}
        /\ markLog[k][i].type \in {"JitFrame_Exit", "JitFrame_BaselineJS",
                                   "JitFrame_BaselineStub", "JitFrame_IonJS",
                                   "JitFrame_Bailout", "JitFrame_Rectifier",
                                   "JitFrame_Unwound_Rectifier"}
        /\ markLog[k][i].routine \notin {"MOZ_CRASH(invalid)",
                                         "MOZ_CRASH(unexpected frame type)"}

\* A marking that came to an Ion frame through a descriptor rewritten to
\* Unwound_IonJS and to a baseline stub frame through one rewritten to
\* Unwound_BaselineStub, in either activation.
C36_Witness ==
    /\ markLog # << >>
    /\ \E k \in 1..Len(markLog) : \E i \in 2..Len(markLog[k]) :
          /\ FrameAt(activations[k].frames, markLog[k][i - 1].fp).prevType
                \in {"JitFrame_Unwound_IonJS", "JitFrame_Unwound_BaselineStub"}
          /\ markLog[k][i].routine \in {"MarkIonJSFrame", "MarkBaselineStubFrame"}
          /\ markLog[k][i - 1].fake

\* C37: whatever steps an iterator takes over a stack rewritten by
\* EnsureExitFrame, the type it hands to SizeOfFramePrefix always has a case
\* there (Unwound_BaselineStub, which a descriptor can hold, never is the
\* type), so prevFp never reaches MOZ_CRASH("unknown frame type").
C37_PrefixSizeKnown ==
    /\ \A it \in {iter, witer} :
          /\ it.type # "crashed"
          /\ it.type # "JitFrame_Unwound_BaselineStub"
          /\ it.type # "none" => SizeOfFramePrefix(it.type) # CRASH_SIZE
    /\ \A k \in 1..Len(visited) : SizeOfFramePrefix(visited[k].type) # CRASH_SIZE
    /\ \A k \in 1..Len(markLog) : \A i \in 1..Len(markLog[k]) :
          SizeOfFramePrefix(markLog[k][i].type) # CRASH_SIZE

\* A walk started while HandleException is under way has stepped onto a
\* baseline stub frame through a descriptor holding Unwound_BaselineStub, and
\* off it again.
C37_Witness ==
    /\ wpc = "walk"
    /\ Len(visited) >= 2
    /\ \E k \in 2..Len(visited) :
          /\ FrameAt(activations[wact].frames, visited[k - 1].addr).prevType
                = "JitFrame_Unwound_BaselineStub"
          /\ visited[k].type = "JitFrame_BaselineStub"
          /\ k < Len(visited)
    /\ pc \notin {"idle", "done"}

\* ------------------------------------------------ properties of descriptors

\* C38: EnsureExitFrame changes nothing of a descriptor but the tag of the
\* previous frame's type: IonJS, BaselineJS, BaselineStub and Rectifier
\* become the unwound tag of the same name, Entry and the unwound tags stay,
\* and a second call leaves what the first call left.
C38_OnlyTagRewrittenOnce ==
    mk.phase = "ensured" =>
        /\ Len(mk.frames) = Len(mk.before)
        /\ mk.frames[2] = mk.before[2]
        /\ mk.frames[1] =
              [mk.before[1] EXCEPT !.prevType =
                  CASE @ = "JitFrame_IonJS" -> "JitFrame_Unwound_IonJS"
                    [] @ = "JitFrame_BaselineJS" -> "JitFrame_Unwound_BaselineJS"
                    [] @ = "JitFrame_BaselineStub" -> "JitFrame_Unwound_BaselineStub"
                    [] @ = "JitFrame_Rectifier" -> "JitFrame_Unwound_Rectifier"
                    [] OTHER -> @]
        /\ EnsureExitFrame(mk.frames, mk.frames[1].addr) = mk.frames

\* The second call on a descriptor that named a baseline stub caller and
\* holds a size and a return address.
C38_Witness ==
    /\ mk.phase = "ensured"
    /\ mk.times = 2
    /\ mk.before[1].prevType = "JitFrame_BaselineStub"
    /\ mk.frames[1].prevType = "JitFrame_Unwound_BaselineStub"
    /\ mk.frames[1].prevSize = 1
    /\ mk.frames[1].retAddr = 501

\* ------------------------------------------- properties of the unwinder, IV

\* C35: while HandleException handles one baseline frame, jit::DebugEpilogue
\* is called at most once for it.  When ForcedReturn called it and it failed
\* (calledDebugEpilogue is set), that call is the only one, the loop body makes
\* no second call and goes on to the next frame; ForcedReturn, which makes
\* one call each time it runs, therefore runs at most once per frame.
C35_DebugEpilogueOncePerFrame ==
    last.kind = "JitFrame_BaselineJS" =>
        /\ last.epilogues <= 1
        /\ last.calledDebugEpilogue => (last.epilogues = 1 /\ ~last.returned)
        /\ last.returned => rfe.kind # "RESUME_ENTRY_FRAME"

\* A debuggee baseline frame whose forced return failed in DebugEpilogue: one
\* call was made and the unwinder moves on to the caller.
C35_Witness ==
    /\ last.kind = "JitFrame_BaselineJS"
    /\ last.calledDebugEpilogue
    /\ last.epilogues = 1
    /\ ~last.returned
    /\ pc = "he_inc"
    /\ last.isDebuggee

\* ------------------------------------ properties of the recover results, II

\* C39: when the computation of the recover results fails inside
\* initInstructionResults, the call answers false with the results it had
\* registered for the frame removed again and none attached to the iterator;
\* whenever no computation is under way, the activation holds for every frame
\* either no results or initialized results with every recover instruction's
\* slot stored.
C39_NoPartialResultsLeft ==
    /\ (sn.failure = "compute" /\ sn.caller \in {"init", "maybeRead"}) =>
          /\ ~sn.ret
          /\ sn.fp \in SnapshotFrames
          /\ sn.ionRecovery[sn.fp] = NoRecovery
          /\ sn.instructionResults = NULL
    /\ sn.phase \in {"idle", "crashed"} =>
          \A f \in SnapshotFrames :
             LET r == sn.ionRecovery[f]
             IN  r # NoRecovery =>
                    /\ r.initialized
                    /\ r.fp = f
                    /\ Len(r.results) = Len(sn.table) - 1
                    /\ \A i \in 1..Len(r.results) :
                          sn.table[i].isResumePoint \/ r.stores[i] >= 1

\* A call for a frame failed in its second recover instruction while the other
\* frame's results stay registered: the first instruction's result is gone
\* with the entry.
C39_Witness ==
    /\ sn.phase = "idle"
    /\ sn.caller = "init"
    /\ sn.failure = "compute"
    /\ sn.op = "recover"
    /\ sn.numInstructionsRead = 2
    /\ ~sn.ret
    /\ sn.ionRecovery[sn.fp] = NoRecovery
    /\ \E f \in SnapshotFrames : f # sn.fp /\ sn.ionRecovery[f].initialized

\* ------------------------------------------ properties of InlineFrameIterator

\* C33: once an InlineFrameIterator has been constructed or reset on an Ion
\* frame it stands on the innermost logical frame and frameCount is the
\* number of logical frames of the frame, no longer UINT32_MAX; every later
\* findNextFrame leaves the count alone, walks from the outermost frame
\* inwards to the frame one further out than before, and framesRead never
\* exceeds the count.
C33_CountedOnceThenOutward ==
    mk.phase = "inline" =>
        /\ mk.it.frameCount # UINT32_MAX
        /\ mk.it.frameCount = Len(mk.sites) + 1
        /\ mk.it.framesRead = mk.calls
        /\ mk.it.framesRead >= 1
        /\ mk.it.framesRead <= mk.it.frameCount
        /\ mk.it.depth = mk.it.frameCount - mk.calls + 1
        /\ mk.calls = 1 => mk.it.depth = Len(mk.sites) + 1

\* An iterator over three logical frames after its third findNextFrame: it
\* stands on the outermost frame and has no more frames.
C33_Witness ==
    /\ mk.phase = "inline"
    /\ Len(mk.sites) = 2
    /\ mk.calls = 3
    /\ mk.it.frameCount = 3
    /\ mk.it.framesRead = 3
    /\ mk.it.depth = 1

\* The count GET_ARGC and the op give at a call site that is no JSOP_FUNAPPLY.
OwnCount(site) ==
    CASE site.op = "JSOP_FUNCALL" -> site.argc - 1
      [] site.op = "JSOP_GETPROP" -> 0
      [] site.op = "JSOP_SETPROP" -> 1
      [] OTHER -> site.argc

\* C40 as stated: a walk of findNextFrame that does not abort has met no
\* JSOP_FUNAPPLY call site, at any inline depth, and the count of the frame it
\* stands on is the one of the call site that leads to it.
C40_FunApplyAlwaysAborts ==
    mk.phase = "inline" =>
        /\ \A i \in 1..(mk.it.depth - 1) : mk.sites[i].op # "JSOP_FUNAPPLY"
        /\ mk.it.depth >= 2 => mk.it.numActualArgs = OwnCount(mk.sites[mk.it.depth - 1])

\* C40: the argument count findNextFrame leaves for the frame it settles on
\* is the one of the call site leading to it (argc for a call, argc - 1 for
\* JSOP_FUNCALL, 0 for a getter, 1 for a setter); at a JSOP_FUNAPPLY site the
\* count deduced for the nearest enclosing site that is no JSOP_FUNAPPLY is
\* kept.  The walk aborts exactly when the outermost call site is a
\* JSOP_FUNAPPLY, where no count has been deduced yet, and that happens in the
\* first walk.
C40_FunApplyKeepsEnclosingCount ==
    /\ mk.phase = "inline" =>
          /\ Len(mk.sites) >= 1 => mk.sites[1].op # "JSOP_FUNAPPLY"
          /\ mk.it.depth = 1 => mk.it.numActualArgs = BadBad
          /\ mk.it.depth >= 2 =>
                LET own == {i \in 1..(mk.it.depth - 1) :
                               mk.sites[i].op # "JSOP_FUNAPPLY"}
                    j == CHOOSE i \in own : \A k \in own : k <= i
                IN  /\ own # {}
                    /\ mk.it.numActualArgs = OwnCount(mk.sites[j])
    /\ mk.phase = "inline_crashed" =>
          /\ mk.sites[1].op = "JSOP_FUNAPPLY"
          /\ mk.calls = 1
          /\ mk.it.depth = 1
          /\ mk.it.frameCount = UINT32_MAX

\* A JSOP_FUNAPPLY inlined inside a frame inlined at a call with two
\* arguments: the innermost frame gets the count two and nothing aborts.
C40_Witness ==
    /\ mk.phase = "inline"
    /\ Len(mk.sites) = 2
    /\ mk.sites[1] = [op |-> "JSOP_CALL", argc |-> 2]
    /\ mk.sites[2].op = "JSOP_FUNAPPLY"
    /\ mk.calls = 1
    /\ mk.it.depth = 3
    /\ mk.it.numActualArgs = 2

\* ------------------------------------------- properties of PCMappingSlotInfo

C31_SpillOf(reg) ==
    mk.frame.fp - frameSize(mk.out.safepointScript)
        - Cardinality({r \in mk.frame.safepoint.allGprSpills : r >= reg})

\* C31: a minor GC leaves every frame that is no IonJS frame alone.  In an
\* IonJS frame it forwards exactly the spill locations of the registers in
\* slotsOrElementsSpills and the stack slots getSlotsOrElementsSlot returns;
\* the safepoint stream is read in the order GC slots, value slots, nunbox
\* entries, slots-or-elements slots, each section to its end; nothing is
\* marked, and no location named by a GC slot, a value slot or a nunbox entry
\* is handed to the forwarding.
C31_ForwardsOnlySlotsOrElements ==
    mk.phase = "minor_gc_done" =>
        LET sp == mk.frame.safepoint
            out == mk.out
            sections == [i \in 1..Len(out.consumed) |-> out.consumed[i].section]
            rank(n) == CASE n = "gc" -> 1 [] n = "value" -> 2 [] n = "nunbox" -> 3
                         [] OTHER -> 4
            forwardedAt == {out.forwarded[i] : i \in 1..Len(out.forwarded)}
        IN  /\ out.roots = << >>
            /\ mk.type # "JitFrame_IonJS" =>
                  out.forwarded = << >> /\ out.consumed = << >>
            /\ mk.type = "JitFrame_IonJS" =>
                  /\ forwardedAt
                        = {C31_SpillOf(r) : r \in sp.slotsOrElementsSpills}
                          \cup {slotRef(mk.frame.fp, o) : o \in sp.slotsOrElementsSlots}
                  /\ Len(out.forwarded) = Cardinality(sp.slotsOrElementsSpills)
                                            + Cardinality(sp.slotsOrElementsSlots)
                  /\ \A i \in 1..(Len(sections) - 1) :
                        rank(sections[i]) <= rank(sections[i + 1])
                  /\ {c.item : c \in {x \in {out.consumed[i] : i \in 1..Len(sections)} :
                                         x.section = "gc"}} = sp.gcSlots
                  /\ {c.item : c \in {x \in {out.consumed[i] : i \in 1..Len(sections)} :
                                         x.section = "value"}} = sp.valueSlots
                  /\ Cardinality({i \in 1..Len(sections) : sections[i] = "nunbox"})
                        = Len(sp.nunbox)
                  /\ {c.item : c \in {x \in {out.consumed[i] : i \in 1..Len(sections)} :
                                         x.section = "slotsOrElements"}}
                        = sp.slotsOrElementsSlots
                  /\ forwardedAt \cap {slotRef(mk.frame.fp, o) :
                                          o \in sp.gcSlots \cup sp.valueSlots} = {}
                  /\ forwardedAt \cap {C31_SpillOf(r) :
                                          r \in sp.gcSpills \cup sp.valueSpills} = {}

\* An IonJS frame with two spilled registers, the lower one holding an
\* elements pointer, a GC slot and a slots pointer in a stack slot.
C31_Witness ==
    /\ mk.phase = "minor_gc_done"
    /\ mk.type = "JitFrame_IonJS"
    /\ mk.frame.safepoint.allGprSpills = {0, 1}
    /\ mk.frame.safepoint.slotsOrElementsSpills = {0}
    /\ mk.frame.safepoint.gcSlots = {1}
    /\ mk.frame.safepoint.slotsOrElementsSlots = {2}
    /\ Len(mk.out.forwarded) = 2
    /\ mk.out.forwarded[2] = mk.frame.fp - 2
    /\ Len(mk.out.consumed) >= 2

====
